---- MODULE Spec2Model ----
(***************************************************************************)
(* A model of the Data NFT SDK: the transaction builders of the            *)
(* marketplace and minter clients, the contract queries and their result   *)
(* parsing, the asynchronous mint of the two minters, the static network   *)
(* configuration of DataNft, the decoding of Data NFT attributes, the      *)
(* DataNft calls to the API and to the Data Marshal, and the constructors  *)
(* of the contract clients.                                                *)
(*                                                                         *)
(* A caller holds one set of clients (built for one environment) and calls *)
(* one operation at a time.  `call` is the operation invoked last with its *)
(* inputs, `pc` the position inside an asynchronous handler, `ret` what    *)
(* the operation returned or threw.                                        *)
(***************************************************************************)
EXTENDS Integers, Sequences, FiniteSets, TLC

VARIABLES
    clients,    \* the client objects: market, dataNftMinter, nftMinter, sftMinter
    static,     \* the static fields of class DataNft: env, networkConfiguration, apiConfiguration
    call,       \* [op, inp]: the operation called last and its input tuple
    pc,         \* "idle", or the await the running handler is suspended at
    locals,     \* the local variables of the running handler
    ret,        \* [kind, tx, val, err]: the outcome of the last operation
    configError,\* the error the last setNetworkConfig call threw, "" if none
    replay,     \* the Transaction returned when the last builder call was repeated
    between     \* TRUE when another operation has run since the last call

vars == <<clients, static, configError, call, pc, locals, ret, replay, between>>

----------------------------------------------------------------------------
(* Bounds of the model *)

MaxNonce == 1        \* token nonces and offer ids range over 0..MaxNonce
MaxQty == 2          \* token quantities range over 1..MaxQty
MaxOffers == 2       \* a query response holds at most MaxOffers offers
MaxRawOffers == 2    \* number of distinct offers the contract may hold

----------------------------------------------------------------------------
(* Optional arguments: an omitted (undefined) argument is None *)

None == <<>>
Some(v) == <<v>>
Default(opt, d) == IF opt = None THEN d ELSE opt[1]

(* Number.prototype.toString / BigNumber.toString for naturals *)
Digit == <<"0", "1", "2", "3", "4", "5", "6", "7", "8", "9">>
RECURSIVE NatToStr(_)
NatToStr(n) ==
    IF n < 10 THEN Digit[n + 1]
    ELSE NatToStr(n \div 10) \o Digit[(n % 10) + 1]

----------------------------------------------------------------------------
(* ./config : the per-environment tables *)

EnvironmentsEnum == {"devnet", "mainnet", "testnet"}

networkConfiguration(env) ==
    [chainID |-> CASE env = "devnet" -> "D"
                   [] env = "mainnet" -> "1"
                   [] env = "testnet" -> "T",
     networkProvider |-> "https://" \o env \o "-api.multiversx.com"]

apiConfiguration(env) == "https://" \o env \o "-api.multiversx.com"

marketPlaceContractAddress(env) == "erd1qqq-market-" \o env
minterContractAddress(env) == "erd1qqq-minter-" \o env
itheumTokenIdentifier(env) == "ITHEUM-" \o env
dataNftTokenIdentifier(env) == "DATANFTFT-" \o env
imageService(env) == "https://" \o env \o ".itheum-image-service"

----------------------------------------------------------------------------
(* sdk-core typed values, as the builders wrap their arguments *)

TokenIdentifierValue(s) == [type |-> "TokenIdentifier", value |-> s]
U64Value(n) == [type |-> "u64", value |-> n]
BigUIntValue(n) == [type |-> "BigUint", value |-> n]
AddressValue(a) == [type |-> "Address", value |-> a]
StringValue(s) == [type |-> "bytes", value |-> s]
BooleanValue(b) == [type |-> "bool", value |-> b]

(* new ContractCallPayloadBuilder().setFunction(f).addArg(..)...build() *)
ContractCallPayload(func, args) == [func |-> func, args |-> args]

(* new Transaction({value, data, receiver, sender, gasLimit, chainID}).     *)
(* value is kept as decimal text: the deposit of initializeContract is     *)
(* beyond the integers of the checker; an omitted value is 0.              *)
Transaction(value, data, receiver, sender, gasLimit, chainID) ==
    [value |-> Default(value, "0"),
     func |-> data.func,
     args |-> data.args,
     receiver |-> receiver,
     sender |-> sender,
     gasLimit |-> gasLimit,
     chainID |-> chainID]

NoTx ==
    [value |-> "", func |-> "", args |-> <<>>, receiver |-> "", sender |-> "",
     gasLimit |-> 0, chainID |-> ""]

----------------------------------------------------------------------------
(* Constructors *)

DataNftMarket(env) ==
    [env |-> env,
     chainID |-> networkConfiguration(env).chainID,
     contract |-> marketPlaceContractAddress(env)]

----------------------------------------------------------------------------
(* DataNftMarket: transaction builders *)

(* A faulty addOffer: the payment nonce and the payment amount change places *)
addOffer_SwappedPayment(self, senderAddress, dataNftIdentifier, dataNftNonce, dataNftAmount, paymentTokenIdentifier, paymentTokenNonce, paymentTokenAmount, minimumPaymentTokenAmount) ==
    Transaction(
        Some("0"),
        ContractCallPayload("ESDTNFTTransfer",
            << TokenIdentifierValue(dataNftIdentifier),
               U64Value(dataNftNonce),
               BigUIntValue(dataNftAmount),
               AddressValue(self.contract),
               StringValue("addOffer"),
               TokenIdentifierValue(paymentTokenIdentifier),
               U64Value(paymentTokenAmount),
               U64Value(paymentTokenNonce),
               U64Value(Default(minimumPaymentTokenAmount, 0)),
               BigUIntValue(dataNftAmount) >>),
        senderAddress, senderAddress, 12000000, self.chainID)

addOffer(self, senderAddress, dataNftIdentifier, dataNftNonce, dataNftAmount, paymentTokenIdentifier, paymentTokenNonce, paymentTokenAmount, minimumPaymentTokenAmount) ==
    Transaction(
        Some("0"),
        ContractCallPayload("ESDTNFTTransfer",
            << TokenIdentifierValue(dataNftIdentifier),
               U64Value(dataNftNonce),
               BigUIntValue(dataNftAmount),
               AddressValue(self.contract),
               StringValue("addOffer"),
               TokenIdentifierValue(paymentTokenIdentifier),
               U64Value(paymentTokenNonce),
               U64Value(paymentTokenAmount),
               U64Value(Default(minimumPaymentTokenAmount, 0)),
               BigUIntValue(dataNftAmount) >>),
        senderAddress, senderAddress, 12000000, self.chainID)

acceptOfferWithESDT(self, senderAddress, offerId, amount, price, paymentTokenIdentifier) ==
    Transaction(
        Some("0"),
        ContractCallPayload("ESDTTransfer",
            << TokenIdentifierValue(
                   Default(paymentTokenIdentifier, itheumTokenIdentifier(self.env))),
               BigUIntValue(price),
               StringValue("acceptOffer"),
               U64Value(offerId),
               BigUIntValue(amount) >>),
        self.contract, senderAddress, 12000000, self.chainID)

(* A faulty acceptOfferWithEGLD: the price travels as an argument, not as value *)
acceptOfferWithEGLD_PriceAsArg(self, senderAddress, offerId, amount, price) ==
    Transaction(
        Some("0"),
        ContractCallPayload("acceptOffer",
            << U64Value(offerId), BigUIntValue(amount), BigUIntValue(price) >>),
        self.contract, senderAddress, 12000000, self.chainID)

acceptOfferWithEGLD(self, senderAddress, offerId, amount, price) ==
    Transaction(
        Some(price),
        ContractCallPayload("acceptOffer",
            << U64Value(offerId), BigUIntValue(amount) >>),
        self.contract, senderAddress, 12000000, self.chainID)

acceptOfferWithNoPayment(self, senderAddress, offerId, amount) ==
    Transaction(
        Some("0"),
        ContractCallPayload("acceptOffer",
            << U64Value(offerId), BigUIntValue(amount) >>),
        self.contract, senderAddress, 12000000, self.chainID)

(* A faulty cancelOffer: an omitted sendFundsBackToOwner counts as false *)
cancelOffer_DefaultFalse(self, senderAddress, offerId, sendFundsBackToOwner) ==
    Transaction(
        Some("0"),
        ContractCallPayload("cancelOffer",
            << U64Value(offerId),
               BooleanValue(Default(sendFundsBackToOwner, FALSE)) >>),
        self.contract, senderAddress, 10000000, self.chainID)

cancelOffer(self, senderAddress, offerId, sendFundsBackToOwner) ==
    Transaction(
        Some("0"),
        ContractCallPayload("cancelOffer",
            << U64Value(offerId),
               BooleanValue(Default(sendFundsBackToOwner, TRUE)) >>),
        self.contract, senderAddress, 10000000, self.chainID)

changeOfferPrice(self, senderAddress, offerId, newPrice, newMinimumPaymentTokenAmount) ==
    Transaction(
        Some("0"),
        ContractCallPayload("changeOfferPrice",
            << U64Value(offerId),
               U64Value(newPrice),
               U64Value(Default(newMinimumPaymentTokenAmount, 0)) >>),
        self.contract, senderAddress, 10000000, self.chainID)

(* A faulty withdrawCancelledOffer: addressed to the sender, as a wrapped call is *)
withdrawCancelledOffer_ToSender(self, senderAddress, offerId) ==
    Transaction(
        Some("0"),
        ContractCallPayload("withdrawCancelledOffer", << U64Value(offerId) >>),
        senderAddress, senderAddress, 12000000, self.chainID)

withdrawCancelledOffer(self, senderAddress, offerId) ==
    Transaction(
        Some("0"),
        ContractCallPayload("withdrawCancelledOffer", << U64Value(offerId) >>),
        self.contract, senderAddress, 12000000, self.chainID)

----------------------------------------------------------------------------
(* DataNftMinter: burn *)

(* A faulty burn: addressed to the contract, as a direct call is *)
burn_ToContract(self, senderAddress, dataNftNonce, quantityToBurn, dataNftIdentifier) ==
    Transaction(
        Some("0"),
        ContractCallPayload("ESDTNFTTransfer",
            << TokenIdentifierValue(
                   Default(dataNftIdentifier, dataNftTokenIdentifier(self.env))),
               U64Value(dataNftNonce),
               BigUIntValue(quantityToBurn),
               AddressValue(self.contract),
               StringValue("burn") >>),
        self.contract, senderAddress, 12000000, self.chainID)

burn(self, senderAddress, dataNftNonce, quantityToBurn, dataNftIdentifier) ==
    Transaction(
        Some("0"),
        ContractCallPayload("ESDTNFTTransfer",
            << TokenIdentifierValue(
                   Default(dataNftIdentifier, dataNftTokenIdentifier(self.env))),
               U64Value(dataNftNonce),
               BigUIntValue(quantityToBurn),
               AddressValue(self.contract),
               StringValue("burn") >>),
        senderAddress, senderAddress, 12000000, self.chainID)

----------------------------------------------------------------------------
(* NftMinter: transaction builders *)

(* options is None when the caller passes no options object *)
initializeContract(self, senderAddress, collectionName, tokenTicker, mintLimit, requireMintTax, options) ==
    LET data ==
            IF requireMintTax /\ options # None
            THEN ContractCallPayload("initializeContract",
                    << StringValue(collectionName),
                       StringValue(tokenTicker),
                       BigUIntValue(mintLimit),
                       BooleanValue(requireMintTax),
                       TokenIdentifierValue(options[1].taxTokenIdentifier),
                       BigUIntValue(options[1].taxTokenAmount) >>)
            ELSE ContractCallPayload("initializeContract",
                    << StringValue(collectionName),
                       StringValue(tokenTicker),
                       BigUIntValue(mintLimit),
                       BooleanValue(requireMintTax) >>)
    IN  Transaction(Some("50000000000000000"), data,
                    self.contract, senderAddress, 10000000, self.chainID)

updateAttributes(self, senderAddress, tokenIdentiifer, nonce, attributes, quantity) ==
    Transaction(
        Some("0"),
        ContractCallPayload("ESDTNFTTransfer",
            << TokenIdentifierValue(tokenIdentiifer),
               U64Value(nonce),
               U64Value(Default(quantity, 1)),
               AddressValue(self.contract),
               StringValue("updateAttributes"),
               StringValue(attributes.dataMarshalUrl),
               StringValue(attributes.dataStreamUrl),
               StringValue(attributes.dataPreviewUrl),
               AddressValue(attributes.creator),
               StringValue(attributes.title),
               StringValue(attributes.description) >>),
        senderAddress, senderAddress, 12000000, self.chainID)

(* a direct call: value 0, receiver the contract *)
DirectCall(self, senderAddress, func, args, gasLimit) ==
    Transaction(Some("0"), ContractCallPayload(func, args),
                self.contract, senderAddress, gasLimit, self.chainID)

setLocalRoles(self, senderAddress) ==
    DirectCall(self, senderAddress, "setLocalRoles", << >>, 10000000)

setTransferRole(self, senderAddress, address) ==
    DirectCall(self, senderAddress, "setTransferRole", << AddressValue(address) >>, 10000000)

unsetTransferRole(self, senderAddress, address) ==
    DirectCall(self, senderAddress, "unsetTransferRole", << AddressValue(address) >>, 10000000)

(* A faulty pauseContract: the chain id is read from the static configuration *)
(* of DataNft, which setNetworkConfig rewrites                              *)
pauseContract_StaticChain(self, senderAddress) ==
    Transaction(Some("0"), ContractCallPayload("setIsPaused", << BooleanValue(TRUE) >>),
                self.contract, senderAddress, 10000000, static.networkConfiguration.chainID)

pauseContract(self, senderAddress) ==
    DirectCall(self, senderAddress, "setIsPaused", << BooleanValue(TRUE) >>, 10000000)

unpauseContract(self, senderAddress) ==
    DirectCall(self, senderAddress, "setIsPaused", << BooleanValue(FALSE) >>, 10000000)

setMintTaxIsRequired(self, senderAddress, is_required) ==
    DirectCall(self, senderAddress, "setTaxIsRequired", << BooleanValue(is_required) >>, 10000000)

setMintTax(self, senderAddress, tokenIdentifier, tax) ==
    DirectCall(self, senderAddress, "setAntiSpamTax",
               << TokenIdentifierValue(tokenIdentifier), BigUIntValue(tax) >>, 10000000)

setWhitelistIsEnabled(self, senderAddress, is_enabled) ==
    DirectCall(self, senderAddress, "setWhiteListEnabled", << BooleanValue(is_enabled) >>, 10000000)

(* addresses.map((address) => new AddressValue(new Address(address))) *)
AddressArgs(addresses) == [i \in 1..Len(addresses) |-> AddressValue(addresses[i])]

whitelist(self, senderAddress, addresses, gasLimit) ==
    DirectCall(self, senderAddress, "setWhiteListSpots", AddressArgs(addresses),
               10000000 + Default(gasLimit, 0))

(* gasLimit has the literal type 0 and no default *)
delist(self, senderAddress, addresses, gasLimit) ==
    DirectCall(self, senderAddress, "delist", AddressArgs(addresses),
               10000000 + gasLimit)

setMintTimeLimit(self, senderAddress, timeLimit) ==
    DirectCall(self, senderAddress, "setMintTimeLimit", << BigUIntValue(timeLimit) >>, 10000000)

setAdministrator(self, senderAddress, newAdministrator) ==
    DirectCall(self, senderAddress, "setAdministrator", << AddressValue(newAdministrator) >>, 10000000)

setClaimsAddress(self, senderAddress, claimsAddress) ==
    DirectCall(self, senderAddress, "setClaimsAddress", << AddressValue(claimsAddress) >>, 10000000)

claimRoyalties(self, senderAddress, tokenIdentifier, nonce) ==
    DirectCall(self, senderAddress, "claimRoyalties",
               << TokenIdentifierValue(tokenIdentifier), BigUIntValue(Default(nonce, 0)) >>,
               10000000)

pauseCollection(self, senderAddress) ==
    DirectCall(self, senderAddress, "pause", << >>, 10000000)

unpauseCollection(self, senderAddress) ==
    DirectCall(self, senderAddress, "unpause", << >>, 10000000)

freeze(self, senderAddress, freezeAddress) ==
    DirectCall(self, senderAddress, "freeze", << AddressValue(freezeAddress) >>, 10000000)

unfreeze(self, senderAddress, unfreezeAddress) ==
    DirectCall(self, senderAddress, "unfreeze", << AddressValue(unfreezeAddress) >>, 10000000)

freezeSingleNFT(self, senderAddress, nonce, freezeAddress) ==
    DirectCall(self, senderAddress, "freezeSingleNFT",
               << U64Value(nonce), AddressValue(freezeAddress) >>, 10000000)

unFreezeSingleNFT(self, senderAddress, nonce, unfreezeAddress) ==
    DirectCall(self, senderAddress, "unFreezeSingleNFT",
               << U64Value(nonce), AddressValue(unfreezeAddress) >>, 10000000)

wipeSingleNFT(self, senderAddress, nonce, wipeAddress) ==
    DirectCall(self, senderAddress, "wipeSingleNFT",
               << U64Value(nonce), AddressValue(wipeAddress) >>, 10000000)

----------------------------------------------------------------------------
(* SftMinter: transaction builders *)

SftInitializeContract(self, senderAddress, collectionName, tokenTicker, antiSpamTaxTokenIdentifier, antiSpamTaxTokenAmount, mintLimit, treasury_address) ==
    DirectCall(self, senderAddress, "initializeContract",
               << StringValue(collectionName),
                  StringValue(tokenTicker),
                  TokenIdentifierValue(antiSpamTaxTokenIdentifier),
                  BigUIntValue(antiSpamTaxTokenAmount),
                  U64Value(mintLimit),
                  AddressValue(treasury_address) >>, 10000000)

setTreasuryAddress(self, senderAddress, treasuryAddress) ==
    DirectCall(self, senderAddress, "setTreasuryAddress", << AddressValue(treasuryAddress) >>, 10000000)

setMaxSupply(self, senderAddress, maxSupply) ==
    DirectCall(self, senderAddress, "setMaxSupply", << BigUIntValue(maxSupply) >>, 10000000)

----------------------------------------------------------------------------
(* Minter: the base class of NftMinter and SftMinter, and DataNftMinter *)

Minter(env, contractAddress) ==
    [env |-> env,
     chainID |-> networkConfiguration(env).chainID,
     contract |-> contractAddress,
     imageServiceUrl |-> imageService(env)]

NftMinter(env, contractAddress) == Minter(env, contractAddress)

SftMinter(env) == Minter(env, minterContractAddress(env))

DataNftMinter(env) ==
    [env |-> env,
     chainID |-> networkConfiguration(env).chainID,
     contract |-> minterContractAddress(env),
     imageServiceUrl |-> imageService(env)]

NftMinterAddress == "erd1qqq-nft-minter"

NewClients(env) ==
    [market |-> DataNftMarket(env),
     dataNftMinter |-> DataNftMinter(env),
     nftMinter |-> NftMinter(env, NftMinterAddress),
     sftMinter |-> SftMinter(env)]

----------------------------------------------------------------------------
(* Outcomes of an operation *)

NoErr == [name |-> "", method |-> "", message |-> ""]
NoRet == [kind |-> "none", tx |-> NoTx, val |-> None, err |-> NoErr]
RetTx(tx) == [kind |-> "tx", tx |-> tx, val |-> None, err |-> NoErr]
RetVal(v) == [kind |-> "value", tx |-> NoTx, val |-> v, err |-> NoErr]
Throw(name, method, message) ==
    [kind |-> "error", tx |-> NoTx, val |-> None,
     err |-> [name |-> name, method |-> method, message |-> message]]

NoCall == [op |-> "none", inp |-> None]
NoLocals == [step |-> 0]

----------------------------------------------------------------------------
(* Input domains *)

Addresses == {"erd1alice", "erd1bob"}
DataNftIdentifiers == {"DATA-X", "DATA-Y"}
PaymentTokens == {"USDC-1", "WEGLD-1"}
Nonces == 0..MaxNonce
Quantities == 1..MaxQty
PaymentAmounts == {50, 100}
OptMinAmounts == {None, Some(0), Some(50)}
Prices == {"100", "2500000000000000000"}
OptBooleans == {None, Some(TRUE), Some(FALSE)}
OptNonces == {None} \cup {Some(n) : n \in Nonces}
OptQuantities == {None} \cup {Some(q) : q \in Quantities}
OptGasLimits == {None, Some(0), Some(5000000)}
AddressLists == {<< >>} \cup {<<a>> : a \in Addresses} \cup {<<a, b>> : a \in Addresses, b \in Addresses}
AttributeSets ==
    { [dataMarshalUrl |-> "https://marshal", dataStreamUrl |-> "https://stream",
       dataPreviewUrl |-> "https://preview", creator |-> c,
       title |-> "title", description |-> "description"] : c \in Addresses }
TaxOptions ==
    {None} \cup { Some([taxTokenIdentifier |-> t, taxTokenAmount |-> a]) :
                    t \in PaymentTokens, a \in PaymentAmounts }

----------------------------------------------------------------------------
(* The Transaction a builder call returns: the method `c.op` of its client *)
(* applied to the input tuple `c.inp`.                                     *)

BuildTx(cl, c) ==
    LET i == c.inp IN
    CASE c.op = "addOffer" ->
            addOffer(cl.market, i.senderAddress, i.dataNftIdentifier, i.dataNftNonce,
                     i.dataNftAmount, i.paymentTokenIdentifier, i.paymentTokenNonce,
                     i.paymentTokenAmount, i.minimumPaymentTokenAmount)
      [] c.op = "acceptOfferWithESDT" ->
            acceptOfferWithESDT(cl.market, i.senderAddress, i.offerId, i.amount, i.price,
                                i.paymentTokenIdentifier)
      [] c.op = "acceptOfferWithEGLD" ->
            acceptOfferWithEGLD(cl.market, i.senderAddress, i.offerId, i.amount, i.price)
      [] c.op = "acceptOfferWithNoPayment" ->
            acceptOfferWithNoPayment(cl.market, i.senderAddress, i.offerId, i.amount)
      [] c.op = "cancelOffer" ->
            cancelOffer(cl.market, i.senderAddress, i.offerId, i.sendFundsBackToOwner)
      [] c.op = "changeOfferPrice" ->
            changeOfferPrice(cl.market, i.senderAddress, i.offerId, i.newPrice,
                             i.newMinimumPaymentTokenAmount)
      [] c.op = "withdrawCancelledOffer" ->
            withdrawCancelledOffer(cl.market, i.senderAddress, i.offerId)
      [] c.op = "burn" ->
            burn(cl.dataNftMinter, i.senderAddress, i.dataNftNonce, i.quantityToBurn,
                 i.dataNftIdentifier)
      [] c.op = "initializeContract" ->
            initializeContract(cl.nftMinter, i.senderAddress, i.collectionName,
                               i.tokenTicker, i.mintLimit, i.requireMintTax, i.options)
      [] c.op = "updateAttributes" ->
            updateAttributes(cl.nftMinter, i.senderAddress, i.tokenIdentiifer, i.nonce,
                             i.attributes, i.quantity)
      [] c.op = "setLocalRoles" -> setLocalRoles(cl.nftMinter, i.senderAddress)
      [] c.op = "setTransferRole" -> setTransferRole(cl.nftMinter, i.senderAddress, i.address)
      [] c.op = "unsetTransferRole" -> unsetTransferRole(cl.nftMinter, i.senderAddress, i.address)
      [] c.op = "pauseContract" -> pauseContract(cl.nftMinter, i.senderAddress)
      [] c.op = "unpauseContract" -> unpauseContract(cl.nftMinter, i.senderAddress)
      [] c.op = "setMintTaxIsRequired" ->
            setMintTaxIsRequired(cl.nftMinter, i.senderAddress, i.is_required)
      [] c.op = "setMintTax" ->
            setMintTax(cl.nftMinter, i.senderAddress, i.tokenIdentifier, i.tax)
      [] c.op = "setWhitelistIsEnabled" ->
            setWhitelistIsEnabled(cl.nftMinter, i.senderAddress, i.is_enabled)
      [] c.op = "whitelist" ->
            whitelist(cl.nftMinter, i.senderAddress, i.addresses, i.gasLimit)
      [] c.op = "delist" ->
            delist(cl.nftMinter, i.senderAddress, i.addresses, i.gasLimit)
      [] c.op = "setMintTimeLimit" ->
            setMintTimeLimit(cl.nftMinter, i.senderAddress, i.timeLimit)
      [] c.op = "setAdministrator" ->
            setAdministrator(cl.nftMinter, i.senderAddress, i.newAdministrator)
      [] c.op = "setClaimsAddress" ->
            setClaimsAddress(cl.nftMinter, i.senderAddress, i.claimsAddress)
      [] c.op = "claimRoyalties" ->
            claimRoyalties(cl.nftMinter, i.senderAddress, i.tokenIdentifier, i.nonce)
      [] c.op = "pauseCollection" -> pauseCollection(cl.nftMinter, i.senderAddress)
      [] c.op = "unpauseCollection" -> unpauseCollection(cl.nftMinter, i.senderAddress)
      [] c.op = "freeze" -> freeze(cl.nftMinter, i.senderAddress, i.freezeAddress)
      [] c.op = "unfreeze" -> unfreeze(cl.nftMinter, i.senderAddress, i.unfreezeAddress)
      [] c.op = "freezeSingleNFT" ->
            freezeSingleNFT(cl.nftMinter, i.senderAddress, i.nonce, i.freezeAddress)
      [] c.op = "unFreezeSingleNFT" ->
            unFreezeSingleNFT(cl.nftMinter, i.senderAddress, i.nonce, i.unfreezeAddress)
      [] c.op = "wipeSingleNFT" ->
            wipeSingleNFT(cl.nftMinter, i.senderAddress, i.nonce, i.wipeAddress)
      [] c.op = "SftMinter.initializeContract" ->
            SftInitializeContract(cl.sftMinter, i.senderAddress, i.collectionName,
                                  i.tokenTicker, i.antiSpamTaxTokenIdentifier,
                                  i.antiSpamTaxTokenAmount, i.mintLimit, i.treasury_address)
      [] c.op = "setTreasuryAddress" ->
            setTreasuryAddress(cl.sftMinter, i.senderAddress, i.treasuryAddress)
      [] c.op = "setMaxSupply" ->
            setMaxSupply(cl.sftMinter, i.senderAddress, i.maxSupply)

BuilderOps ==
    {"addOffer", "acceptOfferWithESDT", "acceptOfferWithEGLD", "acceptOfferWithNoPayment",
     "cancelOffer", "changeOfferPrice", "withdrawCancelledOffer", "burn",
     "initializeContract", "updateAttributes", "setLocalRoles", "setTransferRole",
     "unsetTransferRole", "pauseContract", "unpauseContract", "setMintTaxIsRequired",
     "setMintTax", "setWhitelistIsEnabled", "whitelist", "delist", "setMintTimeLimit",
     "setAdministrator", "setClaimsAddress", "claimRoyalties", "pauseCollection",
     "unpauseCollection", "freeze", "unfreeze", "freezeSingleNFT", "unFreezeSingleNFT",
     "wipeSingleNFT", "SftMinter.initializeContract", "setTreasuryAddress", "setMaxSupply"}

(* A synchronous builder call: nothing but the returned Transaction changes. *)
(* The caller makes a call when it holds no outcome of an earlier one.       *)
Invoke(c) ==
    /\ pc = "idle"
    /\ call = NoCall
    /\ call' = c
    /\ ret' = RetTx(BuildTx(clients, c))
    /\ replay' = NoTx
    /\ between' = FALSE
    /\ locals' = NoLocals
    /\ UNCHANGED <<clients, static, configError, pc>>

----------------------------------------------------------------------------
(* Calls of the DataNftMarket builders *)
DataNftMarketBuilders ==
    /\ pc = "idle"
    /\ call = NoCall
    /\ \/ \E s \in Addresses, t \in DataNftIdentifiers, n \in Nonces, q \in Quantities,
             pt \in PaymentTokens, pn \in Nonces, pa \in PaymentAmounts, m \in OptMinAmounts :
              Invoke([op |-> "addOffer",
                      inp |-> [senderAddress |-> s, dataNftIdentifier |-> t, dataNftNonce |-> n,
                               dataNftAmount |-> q, paymentTokenIdentifier |-> pt,
                               paymentTokenNonce |-> pn, paymentTokenAmount |-> pa,
                               minimumPaymentTokenAmount |-> m]])
       \/ \E s \in Addresses, o \in Nonces, q \in Quantities, p \in Prices,
             pt \in {None} \cup {Some(t) : t \in PaymentTokens} :
              Invoke([op |-> "acceptOfferWithESDT",
                      inp |-> [senderAddress |-> s, offerId |-> o, amount |-> q, price |-> p,
                               paymentTokenIdentifier |-> pt]])
       \/ \E s \in Addresses, o \in Nonces, q \in Quantities, p \in Prices :
              Invoke([op |-> "acceptOfferWithEGLD",
                      inp |-> [senderAddress |-> s, offerId |-> o, amount |-> q, price |-> p]])
       \/ \E s \in Addresses, o \in Nonces, q \in Quantities :
              Invoke([op |-> "acceptOfferWithNoPayment",
                      inp |-> [senderAddress |-> s, offerId |-> o, amount |-> q]])
       \/ \E s \in Addresses, o \in Nonces, b \in OptBooleans :
              Invoke([op |-> "cancelOffer",
                      inp |-> [senderAddress |-> s, offerId |-> o, sendFundsBackToOwner |-> b]])
       \/ \E s \in Addresses, o \in Nonces, p \in PaymentAmounts, m \in OptMinAmounts :
              Invoke([op |-> "changeOfferPrice",
                      inp |-> [senderAddress |-> s, offerId |-> o, newPrice |-> p,
                               newMinimumPaymentTokenAmount |-> m]])
       \/ \E s \in Addresses, o \in Nonces :
              Invoke([op |-> "withdrawCancelledOffer",
                      inp |-> [senderAddress |-> s, offerId |-> o]])

(* Calls of the DataNftMinter builders *)
DataNftMinterBuilders ==
    /\ pc = "idle"
    /\ call = NoCall
    /\ \/ \E s \in Addresses, n \in Nonces, q \in Quantities,
             t \in {None} \cup {Some(d) : d \in DataNftIdentifiers} :
              Invoke([op |-> "burn",
                      inp |-> [senderAddress |-> s, dataNftNonce |-> n, quantityToBurn |-> q,
                               dataNftIdentifier |-> t]])

(* Calls of the NftMinter builders *)
NftMinterBuilders ==
    /\ pc = "idle"
    /\ call = NoCall
    /\ \/ \E s \in Addresses, ml \in Nonces, r \in BOOLEAN, o \in TaxOptions :
              Invoke([op |-> "initializeContract",
                      inp |-> [senderAddress |-> s, collectionName |-> "Collection",
                               tokenTicker |-> "TICK", mintLimit |-> ml, requireMintTax |-> r,
                               options |-> o]])
       \/ \E s \in Addresses, t \in DataNftIdentifiers, n \in Nonces, a \in AttributeSets,
             q \in OptQuantities :
              Invoke([op |-> "updateAttributes",
                      inp |-> [senderAddress |-> s, tokenIdentiifer |-> t, nonce |-> n,
                               attributes |-> a, quantity |-> q]])
       \/ \E s \in Addresses : Invoke([op |-> "setLocalRoles", inp |-> [senderAddress |-> s]])
       \/ \E s \in Addresses, a \in Addresses :
              Invoke([op |-> "setTransferRole", inp |-> [senderAddress |-> s, address |-> a]])
       \/ \E s \in Addresses, a \in Addresses :
              Invoke([op |-> "unsetTransferRole", inp |-> [senderAddress |-> s, address |-> a]])
       \/ \E s \in Addresses : Invoke([op |-> "pauseContract", inp |-> [senderAddress |-> s]])
       \/ \E s \in Addresses : Invoke([op |-> "unpauseContract", inp |-> [senderAddress |-> s]])
       \/ \E s \in Addresses, b \in BOOLEAN :
              Invoke([op |-> "setMintTaxIsRequired", inp |-> [senderAddress |-> s, is_required |-> b]])
       \/ \E s \in Addresses, t \in PaymentTokens, a \in PaymentAmounts :
              Invoke([op |-> "setMintTax",
                      inp |-> [senderAddress |-> s, tokenIdentifier |-> t, tax |-> a]])
       \/ \E s \in Addresses, b \in BOOLEAN :
              Invoke([op |-> "setWhitelistIsEnabled", inp |-> [senderAddress |-> s, is_enabled |-> b]])
       \/ \E s \in Addresses, l \in AddressLists, g \in OptGasLimits :
              Invoke([op |-> "whitelist",
                      inp |-> [senderAddress |-> s, addresses |-> l, gasLimit |-> g]])
       \/ \E s \in Addresses, l \in AddressLists :
              Invoke([op |-> "delist",
                      inp |-> [senderAddress |-> s, addresses |-> l, gasLimit |-> 0]])
       \/ \E s \in Addresses, t \in Nonces :
              Invoke([op |-> "setMintTimeLimit", inp |-> [senderAddress |-> s, timeLimit |-> t]])
       \/ \E s \in Addresses, a \in Addresses :
              Invoke([op |-> "setAdministrator", inp |-> [senderAddress |-> s, newAdministrator |-> a]])
       \/ \E s \in Addresses, a \in Addresses :
              Invoke([op |-> "setClaimsAddress", inp |-> [senderAddress |-> s, claimsAddress |-> a]])
       \/ \E s \in Addresses, t \in PaymentTokens, n \in OptNonces :
              Invoke([op |-> "claimRoyalties",
                      inp |-> [senderAddress |-> s, tokenIdentifier |-> t, nonce |-> n]])
       \/ \E s \in Addresses : Invoke([op |-> "pauseCollection", inp |-> [senderAddress |-> s]])
       \/ \E s \in Addresses : Invoke([op |-> "unpauseCollection", inp |-> [senderAddress |-> s]])
       \/ \E s \in Addresses, a \in Addresses :
              Invoke([op |-> "freeze", inp |-> [senderAddress |-> s, freezeAddress |-> a]])
       \/ \E s \in Addresses, a \in Addresses :
              Invoke([op |-> "unfreeze", inp |-> [senderAddress |-> s, unfreezeAddress |-> a]])
       \/ \E s \in Addresses, n \in Nonces, a \in Addresses :
              Invoke([op |-> "freezeSingleNFT",
                      inp |-> [senderAddress |-> s, nonce |-> n, freezeAddress |-> a]])
       \/ \E s \in Addresses, n \in Nonces, a \in Addresses :
              Invoke([op |-> "unFreezeSingleNFT",
                      inp |-> [senderAddress |-> s, nonce |-> n, unfreezeAddress |-> a]])
       \/ \E s \in Addresses, n \in Nonces, a \in Addresses :
              Invoke([op |-> "wipeSingleNFT",
                      inp |-> [senderAddress |-> s, nonce |-> n, wipeAddress |-> a]])

(* Calls of the SftMinter builders *)
SftMinterBuilders ==
    /\ pc = "idle"
    /\ call = NoCall
    /\ \/ \E s \in Addresses, t \in PaymentTokens, a \in PaymentAmounts, ml \in Nonces,
             tr \in Addresses :
              Invoke([op |-> "SftMinter.initializeContract",
                      inp |-> [senderAddress |-> s, collectionName |-> "Collection",
                               tokenTicker |-> "TICK", antiSpamTaxTokenIdentifier |-> t,
                               antiSpamTaxTokenAmount |-> a, mintLimit |-> ml,
                               treasury_address |-> tr]])
       \/ \E s \in Addresses, a \in Addresses :
              Invoke([op |-> "setTreasuryAddress", inp |-> [senderAddress |-> s, treasuryAddress |-> a]])
       \/ \E s \in Addresses, m \in Quantities :
              Invoke([op |-> "setMaxSupply", inp |-> [senderAddress |-> s, maxSupply |-> m]])

----------------------------------------------------------------------------
(* Contract queries.  A JavaScript value carries its runtime type.          *)

JsNumber(n) == [js |-> "number", v |-> n]
JsString(s) == [js |-> "string", v |-> s]
JsBoolean(b) == [js |-> "boolean", v |-> b]
BigNumber(n) == [js |-> "BigNumber", v |-> n]
AddressObj(a) == [js |-> "Address", v |-> a]

(* BigNumber.toNumber(), x.toString(), BigNumber.toFixed(0), Address.bech32() *)
toNumber(x) == JsNumber(x.v)
toString(x) == IF x.js \in {"BigNumber", "number"} THEN JsString(NatToStr(x.v)) ELSE JsString(x.v)
toFixed0(x) == JsString(NatToStr(x.v))
bech32(x) == JsString(x.v)

(* The offers of the contract, as ResultsParser hands them over *)
RawOffer(k) ==
    [index |-> BigNumber(k),
     owner |-> AddressObj(IF k % 2 = 1 THEN "erd1alice" ELSE "erd1bob"),
     offered_token |-> [token_identifier |-> "DATA-X",
                        token_nonce |-> BigNumber(k + 1),
                        amount |-> BigNumber(k + 2)],
     wanted_token |-> [token_identifier |-> "USDC-1",
                       token_nonce |-> BigNumber(0),
                       amount |-> BigNumber(100 * k)],
     quantity |-> BigNumber(k + 3)]

RawOfferLists ==
    UNION { [1..n -> {RawOffer(k) : k \in 1..MaxRawOffers}] : n \in 0..MaxOffers }

(* getOffers returns pairs (index, offer) *)
IndexedOffers(list) == [i \in 1..Len(list) |-> << list[i].index, list[i] >>]

RawMarketRequirements ==
    [accepted_tokens |-> << "DATA-X" >>,
     accepted_payments |-> << "USDC-1", "WEGLD-1" >>,
     maximum_payment_fees |-> << BigNumber(1000), BigNumber(2000) >>,
     discount_fee_percentage_buyer |-> BigNumber(1),
     discount_fee_percentage_seller |-> BigNumber(2),
     percentage_cut_from_buyer |-> BigNumber(3),
     percentage_cut_from_seller |-> BigNumber(4)]

RawUserDataOut ==
    [anti_spam_tax_value |-> BigNumber(10),
     is_paused |-> JsBoolean(FALSE),
     max_royalties |-> BigNumber(50),
     min_royalties |-> BigNumber(0),
     max_supply |-> BigNumber(1000),
     mint_time_limit |-> BigNumber(60),
     last_mint_time |-> BigNumber(7),
     is_whitelisted |-> JsBoolean(TRUE),
     whitelist_enabled |-> JsBoolean(FALSE),
     minted_per_user |-> BigNumber(2),
     total_minted |-> BigNumber(9),
     frozen |-> JsBoolean(FALSE),
     frozen_nonces |-> << BigNumber(3), BigNumber(5) >>]

ReturnCodes == {"ok", "user error", "out of gas"}

(* returnCode.isSuccess() *)
isSuccess(returnCode) == returnCode = "ok"

(* common/utils parseOffer: one offer struct to an Offer record *)
parseOffer(offer) ==
    [index |-> toNumber(offer.index),
     owner |-> bech32(offer.owner),
     offeredTokenIdentifier |-> JsString(offer.offered_token.token_identifier),
     offeredTokenNonce |-> toNumber(offer.offered_token.token_nonce),
     offeredTokenAmount |-> toFixed0(offer.offered_token.amount),
     wantedTokenIdentifier |-> JsString(offer.wanted_token.token_identifier),
     wantedTokenNonce |-> toNumber(offer.wanted_token.token_nonce),
     wantedTokenAmount |-> toFixed0(offer.wanted_token.amount),
     quantity |-> toNumber(offer.quantity)]

(* A property read or method call on undefined throws a TypeError *)
TypeError(method) == Throw("TypeError", method, "undefined")

(* returnValue.map(parseOffer) after a successful return code, else ErrContractQuery *)
OfferListQuery(method, resp) ==
    IF isSuccess(resp.returnCode)
    THEN IF resp.firstValue = None
         THEN TypeError(method)
         ELSE LET returnValue == resp.firstValue[1]
              IN  RetVal([i \in 1..Len(returnValue) |-> parseOffer(returnValue[i])])
    ELSE Throw("ErrContractQuery", method, resp.returnCode)

viewAddressListedOffers(resp) == OfferListQuery("viewAddressListedOffers", resp)
viewAddressPagedOffers(resp) == OfferListQuery("viewAddressPagedOffers", resp)
viewAddressCancelledOffers(resp) == OfferListQuery("viewAddressCancelledOffers", resp)
viewPagedOffers(resp) == OfferListQuery("viewPagedOffers", resp)

(* A faulty number query: the value is converted before the return code is read *)
NumberQuery_DecodeFirst(method, resp) ==
    IF resp.firstValue = None
    THEN TypeError(method)
    ELSE IF isSuccess(resp.returnCode)
         THEN RetVal(toNumber(resp.firstValue[1]))
         ELSE Throw("ErrContractQuery", method, resp.returnCode)

(* returnValue.toNumber() after a successful return code *)
NumberQuery(method, resp) ==
    IF isSuccess(resp.returnCode)
    THEN IF resp.firstValue = None
         THEN TypeError(method)
         ELSE RetVal(toNumber(resp.firstValue[1]))
    ELSE Throw("ErrContractQuery", method, resp.returnCode)

viewAddressTotalOffers(resp) == NumberQuery("viewAddressTotalOffers", resp)

(* new U8Value(x) / new U64Value(x): a numerical value holding new BigNumber(x) *)
NumericalValue(x) == IF x = None THEN BigNumber("NaN") ELSE BigNumber(x[1].v)

(* new U8Value(returnValue).valueOf().toNumber() *)
viewNumberOfOffers(resp) ==
    IF isSuccess(resp.returnCode)
    THEN RetVal(toNumber(NumericalValue(resp.firstValue)))
    ELSE Throw("ErrContractQuery", "viewNumberOfOffers", resp.returnCode)

(* new U64Value(returnValue).valueOf().toNumber() *)
viewLastValidOfferId(resp) ==
    IF isSuccess(resp.returnCode)
    THEN RetVal(toNumber(NumericalValue(resp.firstValue)))
    ELSE Throw("ErrContractQuery", "viewLastValidOfferId", resp.returnCode)

(* new BooleanValue(returnValue).valueOf() *)
viewContractPauseState(resp) ==
    IF isSuccess(resp.returnCode)
    THEN RetVal(IF resp.firstValue = None THEN None ELSE resp.firstValue[1])
    ELSE Throw("ErrContractQuery", "viewContractPauseState", resp.returnCode)

viewOffers(resp) ==
    IF isSuccess(resp.returnCode)
    THEN IF resp.firstValue = None
         THEN TypeError("viewOffers")
         ELSE LET returnValue == resp.firstValue[1]
                  offerOf(pair) ==
                      LET index == pair[1]
                          o == pair[2]
                      IN  [index |-> toNumber(index),
                           owner |-> bech32(o.owner),
                           offeredTokenIdentifier |-> JsString(o.offered_token.token_identifier),
                           offeredTokenNonce |-> toString(o.offered_token.token_nonce),
                           offeredTokenAmount |-> o.offered_token.amount,
                           wantedTokenIdentifier |-> JsString(o.wanted_token.token_identifier),
                           wantedTokenNonce |-> toString(o.wanted_token.token_nonce),
                           wantedTokenAmount |-> o.wanted_token.amount,
                           quantity |-> toNumber(o.quantity)]
              IN  RetVal([i \in 1..Len(returnValue) |-> offerOf(returnValue[i])])
    ELSE Throw("ErrContractQuery", "viewOffers", resp.returnCode)

viewRequirements(resp) ==
    IF isSuccess(resp.returnCode)
    THEN IF resp.firstValue = None
         THEN TypeError("viewRequirements")
         ELSE LET returnValue == resp.firstValue[1]
              IN  RetVal(
                    [acceptedTokens |-> returnValue.accepted_tokens,
                     acceptedPayments |-> returnValue.accepted_payments,
                     maximumPaymentFees |->
                        [i \in 1..Len(returnValue.maximum_payment_fees) |->
                            toFixed0(returnValue.maximum_payment_fees[i])],
                     buyerTaxPercentageDiscount |->
                        toNumber(returnValue.discount_fee_percentage_buyer),
                     sellerTaxPercentageDiscount |->
                        toNumber(returnValue.discount_fee_percentage_seller),
                     buyerTaxPercentage |-> toNumber(returnValue.percentage_cut_from_buyer),
                     sellerTaxPercentage |-> toNumber(returnValue.percentage_cut_from_seller)])
    ELSE Throw("ErrContractQuery", "viewRequirements", resp.returnCode)

viewMinterRequirements(resp) ==
    IF isSuccess(resp.returnCode)
    THEN IF resp.firstValue = None
         THEN TypeError("viewMinterRequirements")
         ELSE LET returnValue == resp.firstValue[1]
              IN  RetVal(
                    [antiSpamTaxValue |-> toNumber(returnValue.anti_spam_tax_value),
                     contractPaused |-> returnValue.is_paused,
                     maxRoyalties |-> toNumber(returnValue.max_royalties),
                     minRoyalties |-> toNumber(returnValue.min_royalties),
                     maxSupply |-> toNumber(returnValue.max_supply),
                     mintTimeLimit |-> toNumber(returnValue.mint_time_limit),
                     lastUserMintTime |-> returnValue.last_mint_time,
                     userWhitelistedForMint |-> returnValue.is_whitelisted,
                     contractWhitelistEnabled |-> returnValue.whitelist_enabled,
                     numberOfMintsForUser |-> toNumber(returnValue.minted_per_user),
                     totalNumberOfMints |-> toNumber(returnValue.total_minted),
                     addressFrozen |-> returnValue.frozen,
                     frozenNonces |->
                        [i \in 1..Len(returnValue.frozen_nonces) |->
                            toNumber(returnValue.frozen_nonces[i])]])
    ELSE Throw("ErrContractQuery", "viewMinterRequirements", resp.returnCode)

DataNftMinter_viewContractPauseState(resp) ==
    IF isSuccess(resp.returnCode)
    THEN RetVal(IF resp.firstValue = None THEN None ELSE resp.firstValue[1])
    ELSE Throw("ErrContractQuery", "viewContractPauseState", resp.returnCode)

QueryOps ==
    {"viewAddressListedOffers", "viewAddressPagedOffers", "viewAddressTotalOffers",
     "viewAddressCancelledOffers", "viewPagedOffers", "viewOffers", "viewRequirements",
     "viewNumberOfOffers", "viewLastValidOfferId", "viewContractPauseState",
     "viewMinterRequirements", "DataNftMinter.viewContractPauseState"}

OfferListOps ==
    {"viewAddressListedOffers", "viewAddressPagedOffers", "viewAddressCancelledOffers",
     "viewPagedOffers"}

NumberOps == {"viewAddressTotalOffers", "viewNumberOfOffers", "viewLastValidOfferId"}

(* What the contract can answer to a query of `op` with a successful return code *)
QueryValues(op) ==
    IF op \in OfferListOps THEN RawOfferLists
    ELSE IF op = "viewOffers" THEN {IndexedOffers(l) : l \in RawOfferLists}
    ELSE IF op \in NumberOps THEN {BigNumber(n) : n \in 0..MaxOffers}
    ELSE IF op = "viewRequirements" THEN {RawMarketRequirements}
    ELSE IF op = "viewMinterRequirements" THEN {RawUserDataOut}
    ELSE {JsBoolean(b) : b \in BOOLEAN}

(* A failed query carries no value; a successful one carries one of QueryValues *)
QueryResponses(op) ==
    { [returnCode |-> rc, firstValue |-> None] : rc \in ReturnCodes \ {"ok"} }
        \cup { [returnCode |-> "ok", firstValue |-> Some(v)] : v \in QueryValues(op) }

(* The continuation of a view method once queryContract has answered *)
QueryResult(op, resp) ==
    CASE op = "viewAddressListedOffers" -> viewAddressListedOffers(resp)
      [] op = "viewAddressPagedOffers" -> viewAddressPagedOffers(resp)
      [] op = "viewAddressTotalOffers" -> viewAddressTotalOffers(resp)
      [] op = "viewAddressCancelledOffers" -> viewAddressCancelledOffers(resp)
      [] op = "viewPagedOffers" -> viewPagedOffers(resp)
      [] op = "viewOffers" -> viewOffers(resp)
      [] op = "viewRequirements" -> viewRequirements(resp)
      [] op = "viewNumberOfOffers" -> viewNumberOfOffers(resp)
      [] op = "viewLastValidOfferId" -> viewLastValidOfferId(resp)
      [] op = "viewContractPauseState" -> viewContractPauseState(resp)
      [] op = "viewMinterRequirements" -> viewMinterRequirements(resp)
      [] op = "DataNftMinter.viewContractPauseState" ->
            DataNftMinter_viewContractPauseState(resp)

(* A view method builds its query and awaits networkProvider.queryContract *)
Query(c) ==
    /\ pc = "idle"
    /\ call = NoCall
    /\ call' = c
    /\ pc' = "queryContract"
    /\ locals' = NoLocals
    /\ ret' = NoRet
    /\ between' = FALSE
    /\ UNCHANGED <<clients, static, configError, replay>>

(* Calls of the view methods of DataNftMarket and DataNftMinter *)
Queries ==
    /\ pc = "idle"
    /\ call = NoCall
    /\ \/ \E a \in Addresses :
              Query([op |-> "viewAddressListedOffers", inp |-> [address |-> a]])
       \/ \E a \in Addresses, f \in Nonces :
              Query([op |-> "viewAddressPagedOffers",
                     inp |-> [from |-> f, to |-> MaxNonce, address |-> a]])
       \/ \E a \in Addresses :
              Query([op |-> "viewAddressTotalOffers", inp |-> [address |-> a]])
       \/ \E a \in Addresses :
              Query([op |-> "viewAddressCancelledOffers", inp |-> [address |-> a]])
       \/ \E f \in Nonces :
              Query([op |-> "viewPagedOffers", inp |-> [from |-> f, to |-> MaxNonce]])
       \/ Query([op |-> "viewOffers", inp |-> None])
       \/ Query([op |-> "viewRequirements", inp |-> None])
       \/ Query([op |-> "viewNumberOfOffers", inp |-> None])
       \/ Query([op |-> "viewLastValidOfferId", inp |-> None])
       \/ Query([op |-> "viewContractPauseState", inp |-> None])
       \/ \E a \in Addresses, t \in {None} \cup {Some(x) : x \in PaymentTokens} :
              Query([op |-> "viewMinterRequirements", inp |-> [address |-> a, taxToken |-> t]])
       \/ Query([op |-> "DataNftMinter.viewContractPauseState", inp |-> None])

(* queryContract answers: the handler parses the response and returns or throws *)
QueryResponse ==
    /\ pc = "queryContract"
    /\ \E resp \in QueryResponses(call.op) :
        /\ locals' = [step |-> 1, response |-> resp]
        /\ ret' = QueryResult(call.op, resp)
    /\ pc' = "idle"
    /\ UNCHANGED <<clients, static, configError, call, replay, between>>

(* queryContract rejects: the error propagates to the caller *)
QueryFails ==
    /\ pc = "queryContract"
    /\ locals' = [step |-> 1, response |-> [returnCode |-> "", firstValue |-> None]]
    /\ ret' = Throw("ErrNetworkProvider", call.op, "request failed")
    /\ pc' = "idle"
    /\ UNCHANGED <<clients, static, configError, call, replay, between>>

----------------------------------------------------------------------------
(* mint of SftMinter and DataNftMinter: validation, three URL checks, the   *)
(* Data Marshal /generate call, image and metadata, then the Transaction.   *)

MintOps == {"SftMinter.mint", "DataNftMinter.mint"}

MintClient(cl, op) == IF op = "SftMinter.mint" THEN cl.sftMinter ELSE cl.dataNftMinter

(* !x of an optional string: undefined and '' are falsy *)
Falsy(opt) == opt = None \/ opt = Some("")

(* A faulty SftMinter.mint: with a tax the Transaction is addressed to the tax token *)
SftMinter_mintTx_ToToken(self, inp, imageOnIpfsUrl, metadataOnIpfsUrl, dataNftStreamUrlEncrypted) ==
    LET antiSpamTokenIdentifier == Default(inp.antiSpamTokenIdentifier, itheumTokenIdentifier(self.env))
        mintArgs == << StringValue(inp.tokenName),
                       StringValue(imageOnIpfsUrl),
                       StringValue(metadataOnIpfsUrl),
                       StringValue(inp.dataMarshalUrl),
                       StringValue(dataNftStreamUrlEncrypted),
                       StringValue(inp.dataPreviewUrl),
                       U64Value(inp.royalties),
                       U64Value(inp.supply),
                       StringValue(inp.datasetTitle),
                       StringValue(inp.datasetDescription) >>
    IN  IF inp.antiSpamTax > 0
        THEN Transaction(None,
                ContractCallPayload("ESDTTransfer",
                    << TokenIdentifierValue(antiSpamTokenIdentifier),
                       BigUIntValue(inp.antiSpamTax),
                       StringValue("mint") >> \o mintArgs),
                antiSpamTokenIdentifier, inp.senderAddress, 60000000, self.chainID)
        ELSE Transaction(None, ContractCallPayload("mint", mintArgs),
                self.contract, inp.senderAddress, 60000000, self.chainID)

(* The payload and Transaction of SftMinter.mint *)
SftMinter_mintTx(self, inp, imageOnIpfsUrl, metadataOnIpfsUrl, dataNftStreamUrlEncrypted) ==
    LET antiSpamTokenIdentifier == Default(inp.antiSpamTokenIdentifier, itheumTokenIdentifier(self.env))
        mintArgs == << StringValue(inp.tokenName),
                       StringValue(imageOnIpfsUrl),
                       StringValue(metadataOnIpfsUrl),
                       StringValue(inp.dataMarshalUrl),
                       StringValue(dataNftStreamUrlEncrypted),
                       StringValue(inp.dataPreviewUrl),
                       U64Value(inp.royalties),
                       U64Value(inp.supply),
                       StringValue(inp.datasetTitle),
                       StringValue(inp.datasetDescription) >>
        data == IF inp.antiSpamTax > 0
                THEN ContractCallPayload("ESDTTransfer",
                        << TokenIdentifierValue(antiSpamTokenIdentifier),
                           BigUIntValue(inp.antiSpamTax),
                           StringValue("mint") >> \o mintArgs)
                ELSE ContractCallPayload("mint", mintArgs)
    IN  Transaction(None, data, self.contract, inp.senderAddress, 60000000, self.chainID)

(* The payload and Transaction of DataNftMinter.mint *)
DataNftMinter_mintTx(self, inp, imageOnIpfsUrl, metadataOnIpfsUrl, dataNftStreamUrlEncrypted) ==
    LET antiSpamTokenIdentifier == Default(inp.antiSpamTokenIdentifier, itheumTokenIdentifier(self.env))
        mintArgs == << StringValue(inp.tokenName),
                       StringValue(imageOnIpfsUrl),
                       StringValue(metadataOnIpfsUrl),
                       StringValue(inp.dataMarshalUrl),
                       StringValue(dataNftStreamUrlEncrypted),
                       StringValue(inp.dataPreviewUrl),
                       U64Value(inp.royalties),
                       U64Value(inp.supply),
                       StringValue(inp.datasetTitle),
                       StringValue(inp.datasetDescription) >>
        data == IF inp.antiSpamTax > 0
                THEN ContractCallPayload("ESDTTransfer",
                        << TokenIdentifierValue(antiSpamTokenIdentifier),
                           BigUIntValue(inp.antiSpamTax),
                           StringValue("mint") >> \o mintArgs)
                ELSE ContractCallPayload("mint", mintArgs)
    IN  Transaction(None, data, self.contract, inp.senderAddress, 60000000, self.chainID)

(* A faulty mint: the data stream URL is passed as the caller gave it *)
mintTx_Plaintext(cl, c, imageOnIpfsUrl, metadataOnIpfsUrl, dataNftStreamUrlEncrypted) ==
    IF c.op = "SftMinter.mint"
    THEN SftMinter_mintTx(cl.sftMinter, c.inp, imageOnIpfsUrl, metadataOnIpfsUrl, c.inp.dataStreamUrl)
    ELSE DataNftMinter_mintTx(cl.dataNftMinter, c.inp, imageOnIpfsUrl, metadataOnIpfsUrl, c.inp.dataStreamUrl)

(* The Transaction mint returns, by the class it is called on *)
mintTx(cl, c, imageOnIpfsUrl, metadataOnIpfsUrl, dataNftStreamUrlEncrypted) ==
    IF c.op = "SftMinter.mint"
    THEN SftMinter_mintTx(cl.sftMinter, c.inp, imageOnIpfsUrl, metadataOnIpfsUrl, dataNftStreamUrlEncrypted)
    ELSE DataNftMinter_mintTx(cl.dataNftMinter, c.inp, imageOnIpfsUrl, metadataOnIpfsUrl, dataNftStreamUrlEncrypted)

(* The error of a failed validateSpecificParamsMint *)
MintValidationError(op) ==
    IF op = "SftMinter.mint"
    THEN Throw("Error", "mint", "Params have validation issues")
    ELSE Throw("ErrParamValidation", "mint", "validationMessages")

(* The error of a conditionally required option that is not set *)
MintOptionError(op, name) ==
    IF op = "SftMinter.mint"
    THEN Throw("ErrArgumentNotSet", "mint", name)
    ELSE Throw("ErrBadType", "mint", name)

MintOptions ==
    [imageUrl : {None, Some("https://image")},
     traitsUrl : {None, Some("https://traits")},
     nftStorageToken : {None, Some("storage-token")},
     antiSpamTokenIdentifier : {None, Some("USDC-1")}]

MintTaxes == {0, 50}

(* mint is called: the options are destructured and the parameters validated; *)
(* allPassed is the verdict of validateSpecificParamsMint on them.           *)
Mint ==
    /\ pc = "idle"
    /\ call = NoCall
    /\ \E op \in MintOps, s \in Addresses, tax \in MintTaxes, o \in MintOptions, allPassed \in BOOLEAN :
        /\ call' = [op |-> op,
                    inp |-> [senderAddress |-> s, tokenName |-> "TOKEN",
                             dataMarshalUrl |-> "https://marshal",
                             dataStreamUrl |-> "https://stream",
                             dataPreviewUrl |-> "https://preview",
                             royalties |-> 10, supply |-> 5,
                             datasetTitle |-> "dataset title",
                             datasetDescription |-> "dataset description",
                             antiSpamTax |-> tax,
                             imageUrl |-> o.imageUrl, traitsUrl |-> o.traitsUrl,
                             nftStorageToken |-> o.nftStorageToken,
                             antiSpamTokenIdentifier |-> o.antiSpamTokenIdentifier]]
        /\ IF allPassed
           THEN pc' = "checkUrlIsUp" /\ ret' = NoRet
           ELSE pc' = "idle" /\ ret' = MintValidationError(op)
        /\ locals' = [step |-> 0, urlsChecked |-> 0, allPassed |-> allPassed,
                      generate |-> None, image |-> None,
                      dataNftHash |-> "", dataNftStreamUrlEncrypted |-> ""]
    /\ between' = FALSE
    /\ UNCHANGED <<clients, static, configError, replay>>

(* await checkUrlIsUp(..): the stream, the preview, the marshal health check, in turn *)
checkUrlIsUp ==
    /\ pc = "checkUrlIsUp"
    /\ \E up \in BOOLEAN :
        IF up
        THEN /\ locals' = [locals EXCEPT !.step = @ + 1, !.urlsChecked = @ + 1]
             /\ pc' = IF locals.urlsChecked = 2 THEN "dataNFTDataStreamAdvertise" ELSE "checkUrlIsUp"
             /\ ret' = ret
        ELSE /\ locals' = [locals EXCEPT !.step = @ + 1]
             /\ pc' = "idle"
             /\ ret' = Throw("ErrFetch", "checkUrlIsUp", NatToStr(locals.urlsChecked))
    /\ UNCHANGED <<clients, static, configError, call, replay, between>>

(* await dataNFTDataStreamAdvertise(..): the POST to {dataMarshalUrl}/generate *)
(* is answered (status 0: the request is rejected); the body is read as JSON,  *)
(* then the status is checked, then the two fields are looked for.  With both  *)
(* fields, mint goes on to the choice between the generated image and the      *)
(* custom image with its traits.                                               *)
dataNFTDataStreamAdvertise ==
    /\ pc = "dataNFTDataStreamAdvertise"
    /\ \E res \in [status : {0, 200, 500}, json : BOOLEAN,
                   encryptedMessage : {None, Some("encrypted")},
                   messageHash : {None, Some("hash")}] :
        /\ res.status = 0 => ~res.json
        /\ ~res.json => res.encryptedMessage = None /\ res.messageHash = None
        /\ IF res.status = 0
           THEN /\ locals' = [locals EXCEPT !.step = @ + 1, !.generate = Some(res)]
                /\ pc' = "idle"
                /\ ret' = Throw("TypeError", "dataNFTDataStreamAdvertise", "fetch failed")
           ELSE IF ~res.json
           THEN /\ locals' = [locals EXCEPT !.step = @ + 1, !.generate = Some(res)]
                /\ pc' = "idle"
                /\ ret' = Throw("SyntaxError", "dataNFTDataStreamAdvertise", "Unexpected token")
           ELSE IF ~(res.status >= 200 /\ res.status <= 299)
           THEN /\ locals' = [locals EXCEPT !.step = @ + 1, !.generate = Some(res)]
                /\ pc' = "idle"
                /\ ret' = Throw("ErrFetch", "dataNFTDataStreamAdvertise", NatToStr(res.status))
           ELSE IF Falsy(res.encryptedMessage) \/ Falsy(res.messageHash)
           THEN /\ locals' = [locals EXCEPT !.step = @ + 1, !.generate = Some(res)]
                /\ pc' = "idle"
                /\ ret' = Throw("ErrFailedOperation", "dataNFTDataStreamAdvertise",
                                "Invalid response from Data Marshal")
           ELSE /\ locals' = [locals EXCEPT !.step = @ + 1, !.generate = Some(res),
                                           !.dataNftHash = res.messageHash[1],
                                           !.dataNftStreamUrlEncrypted = res.encryptedMessage[1]]
                /\ IF Falsy(call.inp.imageUrl)
                   THEN IF Falsy(call.inp.nftStorageToken)
                        THEN pc' = "idle" /\ ret' = MintOptionError(call.op, "nftStorageToken")
                        ELSE pc' = "createFileFromUrl" /\ ret' = ret
                   ELSE IF Falsy(call.inp.traitsUrl)
                        THEN pc' = "idle" /\ ret' = MintOptionError(call.op, "traitsUrl")
                        ELSE pc' = "checkTraitsUrl" /\ ret' = ret
    /\ UNCHANGED <<clients, static, configError, call, replay, between>>

(* await createFileFromUrl(..): the image service answers (status 0: the    *)
(* request is rejected); the body is taken as the image and the             *)
(* x-nft-traits header as the traits, whatever the status                   *)
createFileFromUrl ==
    /\ pc = "createFileFromUrl"
    /\ \E status \in {0, 200, 500} :
        /\ IF status # 0
           THEN pc' = "storeToIpfs" /\ ret' = ret
           ELSE pc' = "idle" /\ ret' = Throw("TypeError", "createFileFromUrl", "fetch failed")
        /\ locals' = [locals EXCEPT !.step = @ + 1, !.image = Some(status)]
    /\ UNCHANGED <<clients, static, configError, call, replay, between>>

(* A faulty storeToIpfs: the error of the upload is thrown on as it is *)
storeToIpfs_Rethrow ==
    /\ pc = "storeToIpfs"
    /\ \E stored \in BOOLEAN :
        IF stored
        THEN ret' = RetTx(mintTx(clients, call, "https://ipfs.io/ipfs/cid/image.png",
                                 "https://ipfs.io/ipfs/cid/metadata.json",
                                 locals.dataNftStreamUrlEncrypted))
        ELSE ret' = Throw("Error", "storeDirectory", "error.message")
    /\ pc' = "idle"
    /\ locals' = [locals EXCEPT !.step = @ + 1]
    /\ UNCHANGED <<clients, static, configError, call, replay, between>>

(* await storeToIpfs(..), then mint builds and returns its Transaction *)
storeToIpfs ==
    /\ pc = "storeToIpfs"
    /\ \E stored \in BOOLEAN :
        IF stored
        THEN ret' = RetTx(mintTx(clients, call, "https://ipfs.io/ipfs/cid/image.png",
                                 "https://ipfs.io/ipfs/cid/metadata.json",
                                 locals.dataNftStreamUrlEncrypted))
        ELSE ret' = Throw("ErrFailedOperation", "storeToIpfs", "error.message")
    /\ pc' = "idle"
    /\ locals' = [locals EXCEPT !.step = @ + 1]
    /\ UNCHANGED <<clients, static, configError, call, replay, between>>

(* await checkTraitsUrl(traitsUrl), then mint builds and returns its Transaction *)
checkTraitsUrl ==
    /\ pc = "checkTraitsUrl"
    /\ \E compliant \in BOOLEAN :
        IF compliant
        THEN ret' = RetTx(mintTx(clients, call, call.inp.imageUrl[1], call.inp.traitsUrl[1],
                                 locals.dataNftStreamUrlEncrypted))
        ELSE ret' = Throw("ErrFetch", "checkTraitsUrl", call.inp.traitsUrl[1])
    /\ pc' = "idle"
    /\ locals' = [locals EXCEPT !.step = @ + 1]
    /\ UNCHANGED <<clients, static, configError, call, replay, between>>

----------------------------------------------------------------------------
(* DataNft.setNetworkConfig: the static configuration of class DataNft *)

NoStatic ==
    [env |-> "", networkConfiguration |-> [chainID |-> "", networkProvider |-> ""],
     apiConfiguration |-> ""]

(* A property name every JavaScript object inherits from Object.prototype: *)
(* `env in EnvironmentsEnum` is true of it although it is no environment,  *)
(* and a table of ./config read at it gives the inherited function, whose  *)
(* text is InheritedMember and whose chainID is undefined.                 *)
InheritedKeys == {"toString"}
InheritedMember == "function toString() { [native code] }"

EnvInputs == EnvironmentsEnum \cup {"bogus"} \cup InheritedKeys

setNetworkConfig ==
    /\ \E env \in EnvInputs :
        IF ~(env \in EnvironmentsEnum \cup InheritedKeys)
        THEN /\ configError' = "ErrNetworkConfig"
             /\ static' = static
        ELSE /\ configError' = ""
             /\ static' = IF env \in EnvironmentsEnum
                          THEN [env |-> env,
                                networkConfiguration |-> networkConfiguration(env),
                                apiConfiguration |-> apiConfiguration(env)]
                          ELSE [env |-> env,
                                networkConfiguration |-> [chainID |-> "undefined",
                                                          networkProvider |-> "undefined"],
                                apiConfiguration |-> InheritedMember]
    /\ between' = (call.op \in BuilderOps)
    /\ UNCHANGED <<clients, call, pc, locals, ret, replay>>

----------------------------------------------------------------------------
(* DataNft.decodeAttributes: the attribute blob of a token, decoded against *)
(* the DataNftAttributes struct of the minter ABI                           *)

(* The fields of the struct, in the order of their encoding *)
DataNftAttributes ==
    << [name |-> "data_stream_url", type |-> "bytes"],
       [name |-> "data_preview_url", type |-> "bytes"],
       [name |-> "data_marshal_url", type |-> "bytes"],
       [name |-> "creator", type |-> "Address"],
       [name |-> "creation_time", type |-> "u64"],
       [name |-> "title", type |-> "bytes"],
       [name |-> "description", type |-> "bytes"] >>

(* The encoding of a token minted at Unix time t (seconds) *)
EncodedAttributes(t) ==
    << [type |-> "bytes", v |-> "https://stream"],
       [type |-> "bytes", v |-> "https://preview"],
       [type |-> "bytes", v |-> "https://marshal"],
       [type |-> "Address", v |-> "erd1alice"],
       [type |-> "u64", v |-> t],
       [type |-> "bytes", v |-> "title"],
       [type |-> "bytes", v |-> "description"] >>

CreationTimes == {0, 1, 1600000}

(* The attributes handed to decodeAttributes: undefined, a full encoding, an *)
(* encoding cut short after k fields, or an encoding of another struct       *)
AttributeBlobs ==
    {None}
    \cup {Some(SubSeq(EncodedAttributes(t), 1, k)) : t \in CreationTimes, k \in 0..Len(DataNftAttributes)}
    \cup {Some([EncodedAttributes(1) EXCEPT ![4] = [type |-> "bytes", v |-> "alice"]])}

(* codec.decodeTopLevel(buffer, dataNftAttributes).valueOf(): every field of *)
(* the struct is read in turn; a field that is missing or of another type    *)
(* makes the codec throw                                                     *)
decodeTopLevel(buffer, struct) ==
    IF /\ Len(buffer) >= Len(struct)
       /\ \A i \in 1..Len(struct) : buffer[i].type = struct[i].type
    THEN [ok |-> TRUE, message |-> "",
          value |-> [data_stream_url |-> buffer[1].v,
                     data_preview_url |-> buffer[2].v,
                     data_marshal_url |-> buffer[3].v,
                     creator |-> buffer[4].v,
                     creation_time |-> buffer[5].v,
                     title |-> buffer[6].v,
                     description |-> buffer[7].v]]
    ELSE [ok |-> FALSE, message |-> "codec: cannot decode", value |-> None]

(* A faulty decodeAttributes: creationTime is left in seconds *)
decodeAttributes_Seconds(attributes) ==
    IF attributes = None
    THEN Throw("ErrDecodeAttributes", "decodeAttributes", "TypeError: first argument must be a string")
    ELSE LET decoded == decodeTopLevel(attributes[1], DataNftAttributes)
         IN  IF ~decoded.ok
             THEN Throw("ErrDecodeAttributes", "decodeAttributes", decoded.message)
             ELSE RetVal([dataPreview |-> decoded.value.data_preview_url,
                          dataStream |-> decoded.value.data_stream_url,
                          dataMarshal |-> decoded.value.data_marshal_url,
                          creator |-> decoded.value.creator,
                          creationTime |-> decoded.value.creation_time,
                          description |-> decoded.value.description,
                          title |-> decoded.value.title])

(* DataNft.decodeAttributes: whatever is thrown inside the try block is     *)
(* rethrown as ErrDecodeAttributes carrying the message of the cause        *)
decodeAttributes(attributes) ==
    IF attributes = None
    THEN Throw("ErrDecodeAttributes", "decodeAttributes", "TypeError: first argument must be a string")
    ELSE LET decoded == decodeTopLevel(attributes[1], DataNftAttributes)
         IN  IF ~decoded.ok
             THEN Throw("ErrDecodeAttributes", "decodeAttributes", decoded.message)
             ELSE RetVal([dataPreview |-> decoded.value.data_preview_url,
                          dataStream |-> decoded.value.data_stream_url,
                          dataMarshal |-> decoded.value.data_marshal_url,
                          creator |-> decoded.value.creator,
                          creationTime |-> decoded.value.creation_time * 1000,
                          description |-> decoded.value.description,
                          title |-> decoded.value.title])

(* A call of the static, synchronous decodeAttributes *)
DecodeAttributes ==
    /\ pc = "idle"
    /\ call = NoCall
    /\ \E a \in AttributeBlobs :
        /\ call' = [op |-> "DataNft.decodeAttributes", inp |-> [attributes |-> a]]
        /\ ret' = decodeAttributes(a)
    /\ replay' = NoTx
    /\ between' = FALSE
    /\ locals' = NoLocals
    /\ UNCHANGED <<clients, static, configError, pc>>

----------------------------------------------------------------------------
(* DataNft: the calls to the public API and to the Data Marshal.  A request *)
(* is [base, path, query, headers]: query is the sequence of the URL's      *)
(* parameters in their order, headers is None while fetchConfig.headers is  *)
(* not set and else Some(the set of [k, v] entries of the headers object).  *)

Param(k, v) == [k |-> k, v |-> v]

(* the DataNft objects the caller holds: new DataNft() leaves dataMarshal '' *)
DataNfts == [dataMarshal : {"", "https://marshal"}, collection : {"DATANFTFT-1"}, nonce : {1}]

(* ./common/utils numberToPaddedHex: hexadecimal, padded to an even length *)
numberToPaddedHex(n) ==
    LET hex == <<"0", "1", "2", "3", "4", "5", "6", "7", "8", "9", "a", "b", "c", "d", "e", "f">>
    IN  IF n < 16 THEN "0" \o hex[n + 1] ELSE hex[(n \div 16) + 1] \o hex[(n % 16) + 1]

(* ensureNetworkConfigSet returns (TRUE) or throws ErrNetworkConfig (FALSE) *)
ensureNetworkConfigSet(st) == ~(st.env = "" \/ st.apiConfiguration = "")

(* ./common/utils validateSpecificParamsViewData: every field of the        *)
(* mandatory list must be present and, when asked, the header lookup map    *)
(* must hold an authorization entry; the violations are collected           *)
validateSpecificParamsViewData(p, mandatoryParamsList, mustContainBearerAuthHeader) ==
    LET RECURSIVE missing(_)
        missing(i) ==
            IF i > Len(mandatoryParamsList) THEN ""
            ELSE (IF p[mandatoryParamsList[i]] = None
                  THEN mandatoryParamsList[i] \o " is required; "
                  ELSE "") \o missing(i + 1)
        bearer == IF /\ mustContainBearerAuthHeader
                     /\ p.fwdHeaderMapLookup # None
                     /\ ~\E e \in p.fwdHeaderMapLookup[1] : e.k = "authorization"
                  THEN "fwdHeaderMapLookup must contain the authorization Bearer header; "
                  ELSE ""
        messages == missing(1) \o bearer
    IN  [allPassed |-> messages = "", validationMessages |-> messages]

(* The options of the two access calls: every combination of the three     *)
(* flags, and every header lookup map (none, empty, with and without an    *)
(* authorization entry) with every fwdHeaderKeys and fwdAllHeaders         *)
AccessOptions ==
    LET none == [stream |-> None, fwdAllHeaders |-> None, nestedIdxToStream |-> None,
                 fwdHeaderKeys |-> None, fwdHeaderMapLookup |-> None]
        flags == {None, Some(TRUE), Some(FALSE)}
        HeaderMaps == {None, Some({}),
                       Some({Param("authorization", "Bearer zxy")}),
                       Some({Param("cookie", "xyz")}),
                       Some({Param("authorization", "Bearer zxy"), Param("cookie", "xyz")})}
    IN  {[none EXCEPT !.stream = st, !.fwdAllHeaders = fa, !.nestedIdxToStream = ni] :
            st \in flags, fa \in flags, ni \in {None, Some(0)}}
        \cup {[none EXCEPT !.fwdAllHeaders = fa, !.fwdHeaderKeys = fk, !.fwdHeaderMapLookup = hm] :
            fa \in flags, fk \in {None, Some("cookie")}, hm \in HeaderMaps}

(* The parameter object of viewData: every way of signing with no option   *)
(* set, and a Buffer signature with every choice of the options.  The      *)
(* signature of a signable message is a Buffer, an object with a hex()     *)
(* method, or neither; its address has a hex() method or not.              *)
ViewDataParams ==
    LET address == Some([kind |-> "Address", hex |-> "a11ce"])
        buffer == Some([kind |-> "Buffer", hex |-> "5ig"])
        SignableMessages ==
            {None}
            \cup {Some([signature |-> Some([kind |-> k, hex |-> "5ig"]), address |-> address]) :
                    k \in {"Buffer", "Signature", "other"}}
            \cup {Some([signature |-> None, address |-> address]),
                  Some([signature |-> buffer, address |-> None]),
                  Some([signature |-> buffer, address |-> Some([kind |-> "string", hex |-> ""])])}
    IN  {[signedMessage |-> sm, signableMessage |-> sg] @@ o :
            sm \in {None, Some("nonce-1")}, sg \in SignableMessages,
            o \in {x \in AccessOptions : \A k \in DOMAIN x : x[k] = None}}
        \cup {[signedMessage |-> Some("nonce-1"),
               signableMessage |-> Some([signature |-> buffer, address |-> address])] @@ o :
            o \in AccessOptions}

(* The parameter object of viewDataViaMVXNativeAuth: the mandatory fields  *)
(* present or not, every choice of the options, and every combination of  *)
(* the three flags beside a lookup map with the authorization entry       *)
NativeAuthParams ==
    LET origins == << "http://localhost:3000", "https://mycoolsite.com" >>
    IN  {[mvxNativeAuthOrigins |-> og, mvxNativeAuthMaxExpirySeconds |-> ex] @@ o :
            og \in {None, Some(origins)}, ex \in {None, Some(300)},
            o \in {x \in AccessOptions :
                     /\ x.fwdHeaderMapLookup = Some({Param("authorization", "Bearer zxy")})
                     /\ x.fwdHeaderKeys = None /\ x.fwdAllHeaders = None}}
        \cup {[mvxNativeAuthOrigins |-> Some(origins),
               mvxNativeAuthMaxExpirySeconds |-> Some(300)] @@ o :
            o \in AccessOptions}
        \cup {[mvxNativeAuthOrigins |-> Some(origins),
               mvxNativeAuthMaxExpirySeconds |-> Some(300)]
              @@ [o EXCEPT !.fwdHeaderMapLookup = Some({Param("authorization", "Bearer zxy")})] :
            o \in {x \in AccessOptions : x.fwdHeaderMapLookup = None /\ x.fwdHeaderKeys = None}}

(* viewData: the signature and the signer's address, hex-encoded *)
signResult(p) ==
    LET none == [signature |-> "", addrInHex |-> "", success |-> FALSE, exception |-> ""]
        m == p.signableMessage[1]
    IN  IF p.signableMessage # None /\ m.signature # None /\ m.address # None
        THEN LET sig == IF m.signature[1].kind \in {"Buffer", "Signature"}
                        THEN m.signature[1].hex ELSE ""
             IN  IF m.address[1].kind = "Address"
                 THEN [signature |-> sig, addrInHex |-> m.address[1].hex,
                       success |-> TRUE, exception |-> ""]
                 ELSE [signature |-> sig, addrInHex |-> "", success |-> FALSE,
                       exception |-> "TypeError: address.hex is not a function"]
        ELSE [none EXCEPT !.exception = "Some Error"]

(* A faulty getMessageToSign: the chain id is sent as configured *)
getMessageToSign_Request_Unmapped(self, st) ==
    [base |-> self.dataMarshal, path |-> "/preaccess",
     query |-> << Param("chainId", st.networkConfiguration.chainID) >>,
     headers |-> None]

(* getMessageToSign: GET {dataMarshal}/preaccess?chainId=.. *)
getMessageToSign_Request(self, st) ==
    [base |-> self.dataMarshal, path |-> "/preaccess",
     query |-> << Param("chainId", IF st.networkConfiguration.chainID = "D"
                                   THEN "ED" ELSE st.networkConfiguration.chainID) >>,
     headers |-> None]

(* A faulty viewData: only the entries named by fwdHeaderKeys are attached *)
viewData_Request_KeyedOnly(self, st, p) ==
    LET sr == signResult(p)
        url == << Param("nonce", p.signedMessage[1]),
                  Param("NFTId", self.collection \o "-" \o numberToPaddedHex(self.nonce)),
                  Param("signature", sr.signature),
                  Param("chainId", IF st.networkConfiguration.chainID = "D"
                                   THEN "ED" ELSE st.networkConfiguration.chainID),
                  Param("accessRequesterAddr", sr.addrInHex) >>
        stream == IF p.stream # None /\ p.stream[1] THEN << Param("streamInLine", "1") >> ELSE << >>
        fwdAll == IF p.fwdAllHeaders # None /\ p.fwdAllHeaders[1]
                  THEN << Param("fwdAllHeaders", "1") >> ELSE << >>
        nested == IF p.nestedIdxToStream # None
                  THEN << Param("nestedIdxToStream", NatToStr(p.nestedIdxToStream[1])) >> ELSE << >>
        keys == IF p.fwdHeaderKeys # None
                THEN << Param("fwdHeaderKeys", p.fwdHeaderKeys[1]) >> ELSE << >>
        headers == IF /\ p.fwdHeaderKeys # None
                      /\ p.fwdHeaderMapLookup # None
                      /\ Cardinality(p.fwdHeaderMapLookup[1]) > 0
                   THEN Some({Param(e.k, e.v) : e \in {x \in p.fwdHeaderMapLookup[1] : x.k = p.fwdHeaderKeys[1]}})
                   ELSE None
    IN  [base |-> self.dataMarshal, path |-> "/access",
         query |-> url \o stream \o fwdAll \o nested \o keys,
         headers |-> headers]

(* viewData: the access URL and the fetch configuration *)
viewData_Request(self, st, p) ==
    LET sr == signResult(p)
        url == << Param("nonce", p.signedMessage[1]),
                  Param("NFTId", self.collection \o "-" \o numberToPaddedHex(self.nonce)),
                  Param("signature", sr.signature),
                  Param("chainId", IF st.networkConfiguration.chainID = "D"
                                   THEN "ED" ELSE st.networkConfiguration.chainID),
                  Param("accessRequesterAddr", sr.addrInHex) >>
        stream == IF p.stream # None /\ p.stream[1] THEN << Param("streamInLine", "1") >> ELSE << >>
        fwdAll == IF p.fwdAllHeaders # None /\ p.fwdAllHeaders[1]
                  THEN << Param("fwdAllHeaders", "1") >> ELSE << >>
        nested == IF p.nestedIdxToStream # None
                  THEN << Param("nestedIdxToStream", NatToStr(p.nestedIdxToStream[1])) >> ELSE << >>
        keys == IF p.fwdHeaderKeys # None
                THEN << Param("fwdHeaderKeys", p.fwdHeaderKeys[1]) >> ELSE << >>
        headers == IF /\ p.fwdHeaderKeys # None
                      /\ p.fwdHeaderMapLookup # None
                      /\ Cardinality(p.fwdHeaderMapLookup[1]) > 0
                   THEN Some({Param(e.k, e.v) : e \in p.fwdHeaderMapLookup[1]})
                   ELSE None
    IN  [base |-> self.dataMarshal, path |-> "/access",
         query |-> url \o stream \o fwdAll \o nested \o keys,
         headers |-> headers]

(* A faulty viewDataViaMVXNativeAuth: every entry of the map is attached,  *)
(* with or without fwdHeaderKeys                                           *)
viewDataViaMVXNativeAuth_Request_AllEntries(self, st, p) ==
    LET origins == p.mvxNativeAuthOrigins[1]
        RECURSIVE join(_)
        join(i) == IF i > Len(origins) THEN ""
                   ELSE (IF i > 1 THEN "," ELSE "") \o origins[i] \o join(i + 1)
        url == << Param("NFTId", self.collection \o "-" \o numberToPaddedHex(self.nonce)),
                  Param("chainId", IF st.networkConfiguration.chainID = "D"
                                   THEN "ED" ELSE st.networkConfiguration.chainID),
                  Param("mvxNativeAuthEnable", "1"),
                  Param("mvxNativeAuthMaxExpirySeconds", NatToStr(p.mvxNativeAuthMaxExpirySeconds[1])),
                  Param("mvxNativeAuthOrigins", "base64(" \o join(1) \o ")") >>
        stream == IF p.stream # None /\ p.stream[1] THEN << Param("streamInLine", "1") >> ELSE << >>
        fwdAll == IF p.fwdAllHeaders # None /\ p.fwdAllHeaders[1]
                  THEN << Param("fwdAllHeaders", "1") >> ELSE << >>
        nested == IF p.nestedIdxToStream # None
                  THEN << Param("nestedIdxToStream", NatToStr(p.nestedIdxToStream[1])) >> ELSE << >>
        lookup == p.fwdHeaderMapLookup[1]
        hasMap == p.fwdHeaderMapLookup # None /\ Cardinality(lookup) > 0
        authorization == IF \E e \in lookup : e.k = "authorization"
                         THEN (CHOOSE e \in lookup : e.k = "authorization").v
                         ELSE "undefined"
        keys == IF hasMap /\ p.fwdHeaderKeys # None
                THEN << Param("fwdHeaderKeys", p.fwdHeaderKeys[1]) >> ELSE << >>
        headers == IF ~hasMap THEN None
                   ELSE IF p.fwdHeaderKeys = None
                        THEN Some({Param("authorization", authorization)}
                                  \cup {Param(e.k, e.v) : e \in {x \in lookup : x.k # "authorization"}})
                        ELSE Some({Param("authorization", authorization)}
                                  \cup {Param(e.k, e.v) : e \in {x \in lookup : x.k # "authorization"}})
    IN  [base |-> self.dataMarshal, path |-> "/access",
         query |-> url \o stream \o fwdAll \o nested \o keys,
         headers |-> headers]

(* viewDataViaMVXNativeAuth: the access URL and the fetch configuration.   *)
(* The origins are joined with ',', stripped of spaces (the origins of the *)
(* model hold none) and encoded by window.btoa.                            *)
viewDataViaMVXNativeAuth_Request(self, st, p) ==
    LET origins == p.mvxNativeAuthOrigins[1]
        RECURSIVE join(_)
        join(i) == IF i > Len(origins) THEN ""
                   ELSE (IF i > 1 THEN "," ELSE "") \o origins[i] \o join(i + 1)
        url == << Param("NFTId", self.collection \o "-" \o numberToPaddedHex(self.nonce)),
                  Param("chainId", IF st.networkConfiguration.chainID = "D"
                                   THEN "ED" ELSE st.networkConfiguration.chainID),
                  Param("mvxNativeAuthEnable", "1"),
                  Param("mvxNativeAuthMaxExpirySeconds", NatToStr(p.mvxNativeAuthMaxExpirySeconds[1])),
                  Param("mvxNativeAuthOrigins", "base64(" \o join(1) \o ")") >>
        stream == IF p.stream # None /\ p.stream[1] THEN << Param("streamInLine", "1") >> ELSE << >>
        fwdAll == IF p.fwdAllHeaders # None /\ p.fwdAllHeaders[1]
                  THEN << Param("fwdAllHeaders", "1") >> ELSE << >>
        nested == IF p.nestedIdxToStream # None
                  THEN << Param("nestedIdxToStream", NatToStr(p.nestedIdxToStream[1])) >> ELSE << >>
        lookup == p.fwdHeaderMapLookup[1]
        hasMap == p.fwdHeaderMapLookup # None /\ Cardinality(lookup) > 0
        authorization == IF \E e \in lookup : e.k = "authorization"
                         THEN (CHOOSE e \in lookup : e.k = "authorization").v
                         ELSE "undefined"
        keys == IF hasMap /\ p.fwdHeaderKeys # None
                THEN << Param("fwdHeaderKeys", p.fwdHeaderKeys[1]) >> ELSE << >>
        headers == IF ~hasMap THEN None
                   ELSE IF p.fwdHeaderKeys = None
                        THEN Some({Param("authorization", authorization)})
                        ELSE Some({Param("authorization", authorization)}
                                  \cup {Param(e.k, e.v) : e \in {x \in lookup : x.k # "authorization"}})
    IN  [base |-> self.dataMarshal, path |-> "/access",
         query |-> url \o stream \o fwdAll \o nested \o keys,
         headers |-> headers]

(* ./common/utils parseDataNft: a DataNft hydrated from a token record of  *)
(* the API, merged with its decoded attributes                             *)
parseDataNft(record) ==
    LET decoded == decodeAttributes(record.attributes)
    IN  IF decoded.kind = "error"
        THEN [ok |-> FALSE, value |-> None]
        ELSE [ok |-> TRUE,
              value |-> Some([tokenIdentifier |-> record.identifier,
                              collection |-> record.collection,
                              nonce |-> record.nonce,
                              dataMarshal |-> decoded.val.dataMarshal,
                              dataStream |-> decoded.val.dataStream,
                              dataPreview |-> decoded.val.dataPreview,
                              creator |-> decoded.val.creator,
                              creationTime |-> decoded.val.creationTime,
                              title |-> decoded.val.title,
                              description |-> decoded.val.description])]

(* A faulty identifier: the token identifier of the token is ignored and *)
(* the default of the environment is always used                        *)
DataNftApi_Request_DefaultOnly(op, st, inp) ==
    LET default == IF st.env \in EnvironmentsEnum
                   THEN dataNftTokenIdentifier(st.env) ELSE InheritedMember
        createNftIdentifier(t) ==
            default \o "-" \o numberToPaddedHex(t.nonce)
        RECURSIVE join(_)
        join(i) == IF i > Len(inp.tokens) THEN ""
                   ELSE (IF i > 1 THEN "," ELSE "") \o createNftIdentifier(inp.tokens[i]) \o join(i + 1)
    IN  CASE op = "createFromApi" ->
                [base |-> st.apiConfiguration,
                 path |-> "/nfts/" \o createNftIdentifier(inp.token),
                 query |-> << >>, headers |-> None]
          [] op = "createManyFromApi" ->
                [base |-> st.apiConfiguration, path |-> "/nfts",
                 query |-> << Param("identifiers", join(1)), Param("withSupply", "true") >>,
                 headers |-> None]
          [] op = "ownedByAddress" ->
                [base |-> st.apiConfiguration,
                 path |-> "/accounts/" \o inp.address \o "/nfts",
                 query |-> << Param("size", "10000"),
                              Param("collections", Default(inp.identifier, default)),
                              Param("withSupply", "true") >>,
                 headers |-> None]

(* createFromApi, createManyFromApi, ownedByAddress: the URL fetched from  *)
(* the public API; createNftIdentifier joins the collection and the padded *)
(* hexadecimal nonce                                                       *)
DataNftApi_Request(op, st, inp) ==
    LET default == IF st.env \in EnvironmentsEnum
                   THEN dataNftTokenIdentifier(st.env) ELSE InheritedMember
        createNftIdentifier(t) ==
            (IF Falsy(t.tokenIdentifier) THEN default ELSE t.tokenIdentifier[1])
            \o "-" \o numberToPaddedHex(t.nonce)
        RECURSIVE join(_)
        join(i) == IF i > Len(inp.tokens) THEN ""
                   ELSE (IF i > 1 THEN "," ELSE "") \o createNftIdentifier(inp.tokens[i]) \o join(i + 1)
    IN  CASE op = "createFromApi" ->
                [base |-> st.apiConfiguration,
                 path |-> "/nfts/" \o createNftIdentifier(inp.token),
                 query |-> << >>, headers |-> None]
          [] op = "createManyFromApi" ->
                [base |-> st.apiConfiguration, path |-> "/nfts",
                 query |-> << Param("identifiers", join(1)), Param("withSupply", "true") >>,
                 headers |-> None]
          [] op = "ownedByAddress" ->
                [base |-> st.apiConfiguration,
                 path |-> "/accounts/" \o inp.address \o "/nfts",
                 query |-> << Param("size", "10000"),
                              Param("collections", Default(inp.identifier, default)),
                              Param("withSupply", "true") >>,
                 headers |-> None]

(* What the awaited fetch may give: a response [status, contentType, body], *)
(* or (status 0) a rejection of the request                                 *)
Responses(op) ==
    LET json == Some("application/json")
        record(n, attributes) ==
            [identifier |-> "DATANFTFT-1-" \o numberToPaddedHex(n), collection |-> "DATANFTFT-1",
             nonce |-> n, attributes |-> attributes]
        good(n) == record(n, Some(EncodedAttributes(1)))
        bad == record(2, Some(<< >>))
        one == {[array |-> FALSE, items |-> << good(1) >>], [array |-> FALSE, items |-> << bad >>]}
        many == {[array |-> TRUE, items |-> << >>],
                 [array |-> TRUE, items |-> << good(1), good(2) >>],
                 [array |-> TRUE, items |-> << good(1), bad >>]}
    IN  CASE op \in {"viewData", "viewDataViaMVXNativeAuth"} ->
                {[status |-> 200, contentType |-> c, body |-> "stream-bytes"] : c \in {None, json}}
                \cup {[status |-> 404, contentType |-> c, body |-> "marshal-error"] : c \in {None, json}}
                \cup {[status |-> 0, contentType |-> None, body |-> ""]}
          [] op = "getMessageToSign" ->
                {[status |-> 200, contentType |-> json, body |-> [nonce |-> "nonce-1"]],
                 [status |-> 404, contentType |-> json, body |-> [nonce |-> ""]],
                 [status |-> 0, contentType |-> None, body |-> [nonce |-> ""]]}
          [] op \in {"createFromApi", "createManyFromApi", "ownedByAddress"} ->
                {[status |-> 200, contentType |-> json, body |-> b] :
                    b \in CASE op = "createFromApi" -> one
                            [] op = "createManyFromApi" -> many
                            [] op = "ownedByAddress" -> one \cup many}
                \cup {[status |-> s, contentType |-> None, body |-> [array |-> TRUE, items |-> << >>]] :
                        s \in {404, 0}}

(* A faulty viewData: the response of a failing status is passed through  *)
(* as if it were the data stream                                          *)
viewData_Outcome_PassThrough(response) ==
    IF response.status = 0
    THEN [data |-> None, contentType |-> "", error |-> Some("fetch failed")]
    ELSE [data |-> Some(response.body), contentType |-> Default(response.contentType, ""),
          error |-> None]

(* viewData after its fetch: the response is returned, or the error of a  *)
(* failing status is caught and returned in the outcome                   *)
viewData_Outcome(response) ==
    IF response.status = 0
    THEN [data |-> None, contentType |-> "", error |-> Some("fetch failed")]
    ELSE IF response.status >= 200 /\ response.status <= 299
         THEN [data |-> Some(response.body), contentType |-> Default(response.contentType, ""),
               error |-> None]
         ELSE [data |-> None, contentType |-> "",
               error |-> Some("ErrFetch: " \o NatToStr(response.status)
                              \o ". Detailed error trace follows : " \o response.body)]

(* A faulty viewDataViaMVXNativeAuth: the outcome of a failing status     *)
(* keeps the content type of the response                                 *)
viewDataViaMVXNativeAuth_Outcome_KeepsContentType(response) ==
    IF response.status = 0
    THEN [data |-> None, contentType |-> "", error |-> Some("fetch failed")]
    ELSE IF response.status >= 200 /\ response.status <= 299
         THEN [data |-> Some(response.body), contentType |-> Default(response.contentType, ""),
               error |-> None]
         ELSE [data |-> None, contentType |-> Default(response.contentType, ""),
               error |-> Some("ErrFetch: " \o NatToStr(response.status)
                              \o ". Detailed error trace follows : " \o response.body)]

(* viewDataViaMVXNativeAuth after its fetch *)
viewDataViaMVXNativeAuth_Outcome(response) ==
    IF response.status = 0
    THEN [data |-> None, contentType |-> "", error |-> Some("fetch failed")]
    ELSE IF response.status >= 200 /\ response.status <= 299
         THEN [data |-> Some(response.body), contentType |-> Default(response.contentType, ""),
               error |-> None]
         ELSE [data |-> None, contentType |-> "",
               error |-> Some("ErrFetch: " \o NatToStr(response.status)
                              \o ". Detailed error trace follows : " \o response.body)]

(* A faulty hydration: the records parsed before the first failing one    *)
(* are returned                                                           *)
createFromApiResponseOrBulk_Partial(payload) ==
    LET items == payload.items
        parsed == [i \in 1..Len(items) |-> parseDataNft(items[i])]
        failing == {i \in 1..Len(items) : ~parsed[i].ok}
        n == IF failing = {} THEN Len(items)
             ELSE (CHOOSE i \in failing : \A j \in failing : i <= j) - 1
    IN  RetVal([i \in 1..n |-> parsed[i].value[1]])

(* DataNft.createFromApiResponseOrBulk(payload): a record or an array of   *)
(* records (payload.array), parsed one by one into a new array             *)
createFromApiResponseOrBulk(payload) ==
    LET items == payload.items
        parsed == [i \in 1..Len(items) |-> parseDataNft(items[i])]
    IN  IF \E i \in 1..Len(items) : ~parsed[i].ok
        THEN Throw("ErrDataNftCreate", "createFromApiResponseOrBulk", "Payload could not be parsed: ")
        ELSE RetVal([i \in 1..Len(items) |-> parsed[i].value[1]])

(* A faulty handler: getMessageToSign does not check the status of the   *)
(* response and returns the nonce field of whatever body was sent        *)
FetchResult_NonceOnFailure(op, response) ==
    LET checkStatus == response.status >= 200 /\ response.status <= 299
        items == response.body.items
        parsed == [i \in 1..Len(items) |-> parseDataNft(items[i])]
    IN  CASE op = "viewData" -> RetVal(viewData_Outcome(response))
          [] op = "viewDataViaMVXNativeAuth" -> RetVal(viewDataViaMVXNativeAuth_Outcome(response))
          [] response.status = 0 /\ op \notin {"viewData", "viewDataViaMVXNativeAuth"} -> Throw("TypeError", op, "fetch failed")
          [] response.status # 0 /\ op \in {"createFromApi", "createManyFromApi", "ownedByAddress"} /\ ~checkStatus ->
                Throw("ErrFetch", op, NatToStr(response.status))
          [] op = "getMessageToSign" /\ response.status # 0 -> RetVal(response.body.nonce)
          [] op = "ownedByAddress" /\ checkStatus -> createFromApiResponseOrBulk(response.body)
          [] op \in {"createFromApi", "createManyFromApi"} /\ checkStatus ->
                IF \E i \in 1..Len(items) : ~parsed[i].ok
                THEN Throw("ErrDataNftCreate", op, "Response could not be parsed")
                ELSE IF op = "createFromApi"
                     THEN RetVal(parsed[1].value[1])
                     ELSE RetVal([i \in 1..Len(items) |-> parsed[i].value[1]])

(* What the handler makes of the answer of its fetch; checkStatus throws   *)
(* ErrFetch for a status outside 200..299                                  *)
FetchResult(op, response) ==
    LET checkStatus == response.status >= 200 /\ response.status <= 299
        items == response.body.items
        parsed == [i \in 1..Len(items) |-> parseDataNft(items[i])]
    IN  CASE op = "viewData" -> RetVal(viewData_Outcome(response))
          [] op = "viewDataViaMVXNativeAuth" -> RetVal(viewDataViaMVXNativeAuth_Outcome(response))
          [] response.status = 0 /\ op \notin {"viewData", "viewDataViaMVXNativeAuth"} -> Throw("TypeError", op, "fetch failed")
          [] response.status # 0 /\ op \notin {"viewData", "viewDataViaMVXNativeAuth"} /\ ~checkStatus ->
                Throw("ErrFetch", op, NatToStr(response.status))
          [] op = "getMessageToSign" /\ checkStatus -> RetVal(response.body.nonce)
          [] op = "ownedByAddress" /\ checkStatus -> createFromApiResponseOrBulk(response.body)
          [] op \in {"createFromApi", "createManyFromApi"} /\ checkStatus ->
                IF \E i \in 1..Len(items) : ~parsed[i].ok
                THEN Throw("ErrDataNftCreate", op, "Response could not be parsed")
                ELSE IF op = "createFromApi"
                     THEN RetVal(parsed[1].value[1])
                     ELSE RetVal([i \in 1..Len(items) |-> parsed[i].value[1]])

(* Calls of the static methods that read the public API *)
DataNftApi ==
    /\ pc = "idle"
    /\ call = NoCall
    /\ LET a == [nonce |-> 1, tokenIdentifier |-> Some("INSP-a65b3b")]
           b == [nonce |-> 2, tokenIdentifier |-> None]
           Start(c) ==
               /\ call' = c
               /\ IF ensureNetworkConfigSet(static)
                  THEN /\ pc' = "fetch"
                       /\ ret' = NoRet
                       /\ locals' = [step |-> 0, gate |-> None, response |-> None,
                                     request |-> Some(DataNftApi_Request(c.op, static, c.inp))]
                  ELSE /\ pc' = "idle"
                       /\ ret' = Throw("ErrNetworkConfig", c.op, "")
                       /\ locals' = [step |-> 0, gate |-> None, response |-> None, request |-> None]
       IN  \/ \E t \in {a, b} : Start([op |-> "createFromApi", inp |-> [token |-> t]])
           \/ \E ts \in {<< >>, << a >>, << a, b >>, << b, a >>} :
                  Start([op |-> "createManyFromApi", inp |-> [tokens |-> ts]])
           \/ \E ad \in Addresses, id \in {None, Some("DATANFTFT4-3ba099")} :
                  Start([op |-> "ownedByAddress", inp |-> [address |-> ad, identifier |-> id]])
    /\ replay' = NoTx
    /\ between' = FALSE
    /\ UNCHANGED <<clients, static, configError>>

(* dataNft.getMessageToSign() *)
getMessageToSign ==
    /\ pc = "idle"
    /\ call = NoCall
    /\ \E self \in DataNfts :
        /\ call' = [op |-> "getMessageToSign", inp |-> [self |-> self]]
        /\ IF ~ensureNetworkConfigSet(static)
           THEN /\ pc' = "idle"
                /\ ret' = Throw("ErrNetworkConfig", "getMessageToSign", "")
                /\ locals' = [step |-> 0, gate |-> None, response |-> None, request |-> None]
           ELSE IF self.dataMarshal = ""
           THEN /\ pc' = "idle"
                /\ ret' = Throw("ErrAttributeNotSet", "getMessageToSign", "dataMarshal")
                /\ locals' = [step |-> 0, gate |-> None, response |-> None, request |-> None]
           ELSE /\ pc' = "fetch"
                /\ ret' = NoRet
                /\ locals' = [step |-> 0, gate |-> None, response |-> None,
                              request |-> Some(getMessageToSign_Request(self, static))]
    /\ replay' = NoTx
    /\ between' = FALSE
    /\ UNCHANGED <<clients, static, configError>>

(* A faulty viewData: the parameters are validated only after a request   *)
(* to the marshal has been made                                           *)
viewData_LateGate ==
    /\ pc = "idle"
    /\ call = NoCall
    /\ \E self \in DataNfts, p \in ViewDataParams :
        LET gate == validateSpecificParamsViewData(p, << "signedMessage", "signableMessage" >>, FALSE)
        IN  /\ call' = [op |-> "viewData", inp |-> [self |-> self, p |-> p]]
            /\ IF ~ensureNetworkConfigSet(static)
               THEN /\ pc' = "idle"
                    /\ ret' = Throw("ErrNetworkConfig", "viewData", "")
                    /\ locals' = [step |-> 0, gate |-> None, response |-> None, request |-> None]
               ELSE IF self.dataMarshal = ""
               THEN /\ pc' = "idle"
                    /\ ret' = Throw("ErrAttributeNotSet", "viewData", "dataMarshal")
                    /\ locals' = [step |-> 0, gate |-> None, response |-> None, request |-> None]
               ELSE IF ~gate.allPassed
               THEN /\ pc' = "idle"
                    /\ ret' = Throw("Error", "viewData",
                                    "params have validation issues = " \o gate.validationMessages)
                    /\ locals' = [step |-> 1, gate |-> Some(gate), response |-> None,
                                  request |-> Some(getMessageToSign_Request(self, static))]
               ELSE /\ pc' = "fetch"
                    /\ ret' = NoRet
                    /\ locals' = [step |-> 0, gate |-> Some(gate), response |-> None,
                                  request |-> Some(viewData_Request(self, static, p))]
    /\ replay' = NoTx
    /\ between' = FALSE
    /\ UNCHANGED <<clients, static, configError>>

(* dataNft.viewData(p): the configuration, the marshal URL and the         *)
(* parameters are checked before the try block, so their errors are thrown *)
viewData ==
    /\ pc = "idle"
    /\ call = NoCall
    /\ \E self \in DataNfts, p \in ViewDataParams :
        LET gate == validateSpecificParamsViewData(p, << "signedMessage", "signableMessage" >>, FALSE)
        IN  /\ call' = [op |-> "viewData", inp |-> [self |-> self, p |-> p]]
            /\ IF ~ensureNetworkConfigSet(static)
               THEN /\ pc' = "idle"
                    /\ ret' = Throw("ErrNetworkConfig", "viewData", "")
                    /\ locals' = [step |-> 0, gate |-> None, response |-> None, request |-> None]
               ELSE IF self.dataMarshal = ""
               THEN /\ pc' = "idle"
                    /\ ret' = Throw("ErrAttributeNotSet", "viewData", "dataMarshal")
                    /\ locals' = [step |-> 0, gate |-> None, response |-> None, request |-> None]
               ELSE IF ~gate.allPassed
               THEN /\ pc' = "idle"
                    /\ ret' = Throw("Error", "viewData",
                                    "params have validation issues = " \o gate.validationMessages)
                    /\ locals' = [step |-> 0, gate |-> Some(gate), response |-> None, request |-> None]
               ELSE /\ pc' = "fetch"
                    /\ ret' = NoRet
                    /\ locals' = [step |-> 0, gate |-> Some(gate), response |-> None,
                                  request |-> Some(viewData_Request(self, static, p))]
    /\ replay' = NoTx
    /\ between' = FALSE
    /\ UNCHANGED <<clients, static, configError>>

(* A faulty viewDataViaMVXNativeAuth: the nested index is appended only   *)
(* when it is truthy, so index 0 is dropped                               *)
viewDataViaMVXNativeAuth_TruthyIndex ==
    /\ pc = "idle"
    /\ call = NoCall
    /\ \E self \in DataNfts, p \in NativeAuthParams :
        LET gate == validateSpecificParamsViewData(p,
                        << "mvxNativeAuthOrigins", "mvxNativeAuthMaxExpirySeconds", "fwdHeaderMapLookup" >>,
                        TRUE)
            caught(message) == RetVal([data |-> None, contentType |-> "", error |-> Some(message)])
        IN  /\ call' = [op |-> "viewDataViaMVXNativeAuth", inp |-> [self |-> self, p |-> p]]
            /\ IF ~gate.allPassed
               THEN /\ pc' = "idle"
                    /\ ret' = caught("params have validation issues = " \o gate.validationMessages)
                    /\ locals' = [step |-> 0, gate |-> Some(gate), response |-> None, request |-> None]
               ELSE IF static.networkConfiguration = NoStatic.networkConfiguration
               THEN /\ pc' = "idle"
                    /\ ret' = caught("Cannot read properties of undefined (reading 'chainID')")
                    /\ locals' = [step |-> 0, gate |-> Some(gate), response |-> None, request |-> None]
               ELSE /\ pc' = "fetch"
                    /\ ret' = NoRet
                    /\ locals' = [step |-> 0, gate |-> Some(gate), response |-> None,
                                  request |-> Some([viewDataViaMVXNativeAuth_Request(self, static, p) EXCEPT
                                      !.query = SelectSeq(@, LAMBDA e : ~(e.k = "nestedIdxToStream" /\ e.v = "0"))])]
    /\ replay' = NoTx
    /\ between' = FALSE
    /\ UNCHANGED <<clients, static, configError>>

(* dataNft.viewDataViaMVXNativeAuth(p): the whole body is inside the try   *)
(* block, so whatever is thrown is caught and returned in the outcome; the *)
(* configuration is not checked, and reading the chainID of an unset       *)
(* networkConfiguration throws a TypeError                                 *)
viewDataViaMVXNativeAuth ==
    /\ pc = "idle"
    /\ call = NoCall
    /\ \E self \in DataNfts, p \in NativeAuthParams :
        LET gate == validateSpecificParamsViewData(p,
                        << "mvxNativeAuthOrigins", "mvxNativeAuthMaxExpirySeconds", "fwdHeaderMapLookup" >>,
                        TRUE)
            caught(message) == RetVal([data |-> None, contentType |-> "", error |-> Some(message)])
        IN  /\ call' = [op |-> "viewDataViaMVXNativeAuth", inp |-> [self |-> self, p |-> p]]
            /\ IF ~gate.allPassed
               THEN /\ pc' = "idle"
                    /\ ret' = caught("params have validation issues = " \o gate.validationMessages)
                    /\ locals' = [step |-> 0, gate |-> Some(gate), response |-> None, request |-> None]
               ELSE IF static.networkConfiguration = NoStatic.networkConfiguration
               THEN /\ pc' = "idle"
                    /\ ret' = caught("Cannot read properties of undefined (reading 'chainID')")
                    /\ locals' = [step |-> 0, gate |-> Some(gate), response |-> None, request |-> None]
               ELSE /\ pc' = "fetch"
                    /\ ret' = NoRet
                    /\ locals' = [step |-> 0, gate |-> Some(gate), response |-> None,
                                  request |-> Some(viewDataViaMVXNativeAuth_Request(self, static, p))]
    /\ replay' = NoTx
    /\ between' = FALSE
    /\ UNCHANGED <<clients, static, configError>>

(* A faulty handler: when its fetch settles it reads the static            *)
(* configuration again and takes the base URL of the API from it           *)
fetch_Reread ==
    /\ pc = "fetch"
    /\ \E response \in Responses(call.op) :
        /\ locals' = [locals EXCEPT !.step = @ + 1, !.response = Some(response),
                                    !.request = IF call.op \in {"viewData", "viewDataViaMVXNativeAuth",
                                                                "getMessageToSign"}
                                                THEN @
                                                ELSE Some([@[1] EXCEPT !.base = static.apiConfiguration])]
        /\ ret' = FetchResult(call.op, response)
    /\ pc' = "idle"
    /\ UNCHANGED <<clients, static, configError, call, replay, between>>

(* the awaited fetch settles: the handler resumes with the response and    *)
(* returns or throws                                                       *)
fetch ==
    /\ pc = "fetch"
    /\ \E response \in Responses(call.op) :
        /\ locals' = [locals EXCEPT !.step = @ + 1, !.response = Some(response)]
        /\ ret' = FetchResult(call.op, response)
    /\ pc' = "idle"
    /\ UNCHANGED <<clients, static, configError, call, replay, between>>

(* new DataNftMarket(env): an env that `in` does not find throws           *)
(* ErrNetworkConfig; at an inherited key the tables of ./config give a      *)
(* function, which new Address(..) refuses                                  *)
DataNftMarket_constructor(env) ==
    IF ~(env \in EnvironmentsEnum \cup InheritedKeys)
    THEN Throw("ErrNetworkConfig", "DataNftMarket", "Invalid environment: " \o env)
    ELSE IF env \in InheritedKeys
         THEN Throw("ErrAddressCannotCreate", "DataNftMarket", InheritedMember)
         ELSE RetVal(DataNftMarket(env))

(* new DataNftMinter(env) *)
DataNftMinter_constructor(env) ==
    IF ~(env \in EnvironmentsEnum \cup InheritedKeys)
    THEN Throw("ErrNetworkConfig", "DataNftMinter", "Invalid environment: " \o env)
    ELSE IF env \in InheritedKeys
         THEN Throw("ErrAddressCannotCreate", "DataNftMinter", InheritedMember)
         ELSE RetVal(DataNftMinter(env))

(* The caller constructs one more client *)
Construct ==
    /\ pc = "idle"
    /\ call = NoCall
    /\ \E env \in EnvInputs :
        \/ /\ call' = [op |-> "new DataNftMarket", inp |-> [env |-> env]]
           /\ ret' = DataNftMarket_constructor(env)
        \/ /\ call' = [op |-> "new DataNftMinter", inp |-> [env |-> env]]
           /\ ret' = DataNftMinter_constructor(env)
    /\ replay' = NoTx
    /\ between' = FALSE
    /\ locals' = NoLocals
    /\ UNCHANGED <<clients, static, configError, pc>>

(* The same builder call made again on the same client *)
Repeat ==
    /\ pc = "idle"
    /\ call.op \in BuilderOps
    /\ ret.kind = "tx"
    /\ replay' = BuildTx(clients, call)
    /\ UNCHANGED <<clients, static, configError, call, pc, locals, ret, between>>

(* The caller takes the outcome of the finished operation *)
Consume ==
    /\ pc = "idle"
    /\ call # NoCall
    /\ call' = NoCall
    /\ ret' = NoRet
    /\ replay' = NoTx
    /\ between' = FALSE
    /\ locals' = NoLocals
    /\ UNCHANGED <<clients, static, configError, pc>>

----------------------------------------------------------------------------

Init ==
    /\ \E env \in EnvironmentsEnum : clients = NewClients(env)
    /\ static = NoStatic
    /\ configError = ""
    /\ call = NoCall
    /\ pc = "idle"
    /\ locals = NoLocals
    /\ ret = NoRet
    /\ replay = NoTx
    /\ between = FALSE

Next ==
    \/ DataNftMarketBuilders
    \/ DataNftMinterBuilders
    \/ NftMinterBuilders
    \/ SftMinterBuilders
    \/ Queries
    \/ QueryResponse
    \/ QueryFails
    \/ Mint
    \/ checkUrlIsUp
    \/ dataNFTDataStreamAdvertise
    \/ createFileFromUrl
    \/ storeToIpfs
    \/ checkTraitsUrl
    \/ setNetworkConfig
    \/ DecodeAttributes
    \/ DataNftApi
    \/ getMessageToSign
    \/ viewData
    \/ viewDataViaMVXNativeAuth
    \/ fetch
    \/ Construct
    \/ Repeat
    \/ Consume

Spec == Init /\ [][Next]_vars

----------------------------------------------------------------------------
(* Properties *)

(* a builder or mint call has returned its Transaction *)
Returned(op) == pc = "idle" /\ call.op = op /\ ret.kind = "tx"

(* the ten arguments of the contract's mint endpoint, from the inputs and   *)
(* what the handler gathered on its way                                     *)
MintEndpointArgs ==
    LET i == call.inp
        custom == ~Falsy(i.imageUrl)
    IN  << StringValue(i.tokenName),
           StringValue(IF custom THEN i.imageUrl[1] ELSE "https://ipfs.io/ipfs/cid/image.png"),
           StringValue(IF custom THEN i.traitsUrl[1] ELSE "https://ipfs.io/ipfs/cid/metadata.json"),
           StringValue(i.dataMarshalUrl),
           StringValue(locals.dataNftStreamUrlEncrypted),
           StringValue(i.dataPreviewUrl),
           U64Value(i.royalties),
           U64Value(i.supply),
           StringValue(i.datasetTitle),
           StringValue(i.datasetDescription) >>

MintTaxToken == Default(call.inp.antiSpamTokenIdentifier, itheumTokenIdentifier(MintClient(clients, call.op).env))

MintReturned == pc = "idle" /\ call.op \in MintOps /\ ret.kind = "tx"

(* C1 (as the code has it): a Transaction returned by mint is addressed to  *)
(* the minter contract whatever the tax is; with antiSpamTax = 0 it calls   *)
(* 'mint' with the ten endpoint arguments, with antiSpamTax > 0 it calls    *)
(* 'ESDTTransfer' with [tax token, tax amount, 'mint'] followed by the same *)
(* ten arguments in the same order.                                         *)
C1_MintShape ==
    MintReturned =>
        /\ ret.tx.receiver = MintClient(clients, call.op).contract
        /\ ret.tx.sender = call.inp.senderAddress
        /\ IF call.inp.antiSpamTax = 0
           THEN /\ ret.tx.func = "mint"
                /\ ret.tx.args = MintEndpointArgs
           ELSE /\ ret.tx.func = "ESDTTransfer"
                /\ ret.tx.args = << TokenIdentifierValue(MintTaxToken),
                                    BigUIntValue(call.inp.antiSpamTax),
                                    StringValue("mint") >> \o MintEndpointArgs

C1_Witness ==
    /\ MintReturned
    /\ call.op = "SftMinter.mint"
    /\ call.inp.antiSpamTax > 0
    /\ ret.tx.receiver = clients.sftMinter.contract
    /\ Len(ret.tx.args) = 13

(* C1 as the claim words it: with antiSpamTax > 0 the receiver is the tax token *)
C1_AsClaimed ==
    MintReturned =>
        IF call.inp.antiSpamTax = 0
        THEN ret.tx.receiver = MintClient(clients, call.op).contract /\ ret.tx.func = "mint"
        ELSE /\ ret.tx.receiver = MintTaxToken
             /\ ret.tx.func = "ESDTTransfer"
             /\ ret.tx.args = << TokenIdentifierValue(MintTaxToken),
                                 BigUIntValue(call.inp.antiSpamTax),
                                 StringValue("mint") >> \o MintEndpointArgs

(* C2: addOffer returns an ESDTNFTTransfer call whose arguments are, in     *)
(* order, token, nonce, amount, marketplace address, 'addOffer', payment    *)
(* token, payment nonce, payment amount, minimum amount, amount again.      *)
C2_AddOfferArgs ==
    Returned("addOffer") =>
        LET i == call.inp
        IN  /\ ret.tx.func = "ESDTNFTTransfer"
            /\ ret.tx.args =
                << TokenIdentifierValue(i.dataNftIdentifier),
                   U64Value(i.dataNftNonce),
                   BigUIntValue(i.dataNftAmount),
                   AddressValue(clients.market.contract),
                   StringValue("addOffer"),
                   TokenIdentifierValue(i.paymentTokenIdentifier),
                   U64Value(i.paymentTokenNonce),
                   U64Value(i.paymentTokenAmount),
                   U64Value(Default(i.minimumPaymentTokenAmount, 0)),
                   BigUIntValue(i.dataNftAmount) >>

(* the example of the claim: addOffer(sender, 'DATA-X', 0, 1, 'USDC-1', 0, 100, 50) *)
C2_Witness ==
    /\ Returned("addOffer")
    /\ call.inp = [senderAddress |-> "erd1alice", dataNftIdentifier |-> "DATA-X",
                   dataNftNonce |-> 0, dataNftAmount |-> 1,
                   paymentTokenIdentifier |-> "USDC-1", paymentTokenNonce |-> 0,
                   paymentTokenAmount |-> 100, minimumPaymentTokenAmount |-> Some(50)]
    /\ [k \in 1..Len(ret.tx.args) |-> ret.tx.args[k].value] =
          << "DATA-X", 0, 1, clients.market.contract, "addOffer", "USDC-1", 0, 100, 50, 1 >>

(* the contract a builder of the model addresses *)
TargetContract(op) ==
    IF op \in {"addOffer", "acceptOfferWithESDT", "acceptOfferWithEGLD",
               "acceptOfferWithNoPayment", "cancelOffer", "changeOfferPrice",
               "withdrawCancelledOffer"}
    THEN clients.market.contract
    ELSE IF op \in {"burn", "DataNftMinter.mint"} THEN clients.dataNftMinter.contract
    ELSE IF op \in {"SftMinter.mint", "SftMinter.initializeContract", "setTreasuryAddress",
                    "setMaxSupply"}
         THEN clients.sftMinter.contract
    ELSE clients.nftMinter.contract

NftTransferOps == {"addOffer", "updateAttributes", "burn"}

WrappedReturned ==
    /\ pc = "idle"
    /\ ret.kind = "tx"
    /\ \/ call.op \in NftTransferOps
       \/ call.op = "acceptOfferWithESDT"
       \/ call.op \in MintOps /\ call.inp.antiSpamTax > 0

WrappedFunction == IF call.op \in MintOps THEN "mint" ELSE IF call.op = "acceptOfferWithESDT" THEN "acceptOffer" ELSE call.op

(* C3 (as the code has it): the ESDTNFTTransfer wraps (addOffer,            *)
(* updateAttributes, burn) are addressed to the sender, never to the        *)
(* contract, and begin with token, nonce, amount, contract address,         *)
(* function name; the ESDTTransfer wraps (acceptOfferWithESDT, mint with a  *)
(* tax) are addressed to the contract itself and begin with token, amount,  *)
(* function name, carrying neither a nonce nor the contract address.        *)
C3_WrappedShape ==
    WrappedReturned =>
        IF call.op \in NftTransferOps
        THEN /\ ret.tx.func = "ESDTNFTTransfer"
             /\ ret.tx.receiver = call.inp.senderAddress
             /\ ret.tx.receiver # TargetContract(call.op)
             /\ ret.tx.args[1].type = "TokenIdentifier"
             /\ ret.tx.args[2].type = "u64"
             /\ ret.tx.args[3].type \in {"BigUint", "u64"}
             /\ ret.tx.args[4] = AddressValue(TargetContract(call.op))
             /\ ret.tx.args[5] = StringValue(WrappedFunction)
        ELSE /\ ret.tx.func = "ESDTTransfer"
             /\ ret.tx.receiver = TargetContract(call.op)
             /\ ret.tx.args[1].type = "TokenIdentifier"
             /\ ret.tx.args[2].type = "BigUint"
             /\ ret.tx.args[3] = StringValue(WrappedFunction)
             /\ \A k \in 1..Len(ret.tx.args) : ret.tx.args[k].type # "Address"

C3_Witness ==
    /\ WrappedReturned
    /\ call.op = "acceptOfferWithESDT"
    /\ ret.tx.func = "ESDTTransfer"
    /\ ret.tx.receiver = clients.market.contract

(* C3 as the claim words it: no wrapped call is addressed to the contract,  *)
(* and each embeds token, nonce, amount, contract address, function name    *)
C3_AsClaimed ==
    WrappedReturned =>
        /\ ret.tx.receiver # TargetContract(call.op)
        /\ ret.tx.args[1].type = "TokenIdentifier"
        /\ ret.tx.args[2].type = "u64"
        /\ ret.tx.args[4] = AddressValue(TargetContract(call.op))
        /\ ret.tx.args[5] = StringValue(WrappedFunction)

DirectCallOps ==
    {"cancelOffer", "changeOfferPrice", "withdrawCancelledOffer", "setLocalRoles",
     "setTransferRole", "unsetTransferRole", "pauseContract", "unpauseContract",
     "setMintTaxIsRequired", "setMintTax", "setWhitelistIsEnabled", "whitelist", "delist",
     "setMintTimeLimit", "setAdministrator", "setClaimsAddress", "claimRoyalties",
     "pauseCollection", "unpauseCollection", "freeze", "unfreeze", "freezeSingleNFT",
     "unFreezeSingleNFT", "wipeSingleNFT", "setTreasuryAddress", "setMaxSupply"}

(* the gas limit each direct-call builder writes as a literal *)
FixedGas(op) == IF op = "withdrawCancelledOffer" THEN 12000000 ELSE 10000000

DirectReturned == pc = "idle" /\ call.op \in DirectCallOps /\ ret.kind = "tx"

(* C4 (as the code has it): a direct-call builder returns value 0, receiver *)
(* the contract, sender the senderAddress; its gas limit is the constant of *)
(* the operation (12,000,000 for withdrawCancelledOffer, 10,000,000 for the *)
(* others), except that whitelist and delist add their gasLimit argument to *)
(* 10,000,000 (whitelist's defaults to 0).                                  *)
C4_DirectCallShape ==
    DirectReturned =>
        /\ ret.tx.value = "0"
        /\ ret.tx.receiver = TargetContract(call.op)
        /\ ret.tx.sender = call.inp.senderAddress
        /\ ret.tx.gasLimit =
              IF call.op = "whitelist" THEN 10000000 + Default(call.inp.gasLimit, 0)
              ELSE IF call.op = "delist" THEN 10000000 + call.inp.gasLimit
              ELSE FixedGas(call.op)

C4_Witness ==
    /\ DirectReturned
    /\ call.op = "whitelist"
    /\ call.inp.gasLimit = Some(5000000)
    /\ ret.tx.gasLimit = 15000000

(* C4 as the claim words it: the gas limit of every direct-call builder is  *)
(* 10,000,000 or 12,000,000 whatever the inputs                             *)
C4_AsClaimed ==
    DirectReturned =>
        /\ ret.tx.value = "0"
        /\ ret.tx.receiver = TargetContract(call.op)
        /\ ret.tx.sender = call.inp.senderAddress
        /\ ret.tx.gasLimit \in {10000000, 12000000}

(* C5: acceptOfferWithEGLD and acceptOfferWithNoPayment both call           *)
(* 'acceptOffer' on the contract with exactly [offerId, amount] and differ  *)
(* only in value (the price against 0); NftMinter.initializeContract        *)
(* carries its deposit in value and only its logical arguments.             *)
C5_NativeValue ==
    /\ Returned("acceptOfferWithEGLD") =>
          /\ ret.tx.func = "acceptOffer"
          /\ ret.tx.receiver = clients.market.contract
          /\ ret.tx.args = << U64Value(call.inp.offerId), BigUIntValue(call.inp.amount) >>
          /\ ret.tx.value = call.inp.price
          /\ [ret.tx EXCEPT !.value = "0"] =
                acceptOfferWithNoPayment(clients.market, call.inp.senderAddress,
                                         call.inp.offerId, call.inp.amount)
    /\ Returned("acceptOfferWithNoPayment") =>
          /\ ret.tx.func = "acceptOffer"
          /\ ret.tx.receiver = clients.market.contract
          /\ ret.tx.args = << U64Value(call.inp.offerId), BigUIntValue(call.inp.amount) >>
          /\ ret.tx.value = "0"
    /\ Returned("initializeContract") =>
          /\ ret.tx.value = "50000000000000000"
          /\ ret.tx.func = "initializeContract"
          /\ ret.tx.receiver = clients.nftMinter.contract
          /\ SubSeq(ret.tx.args, 1, 4) =
                << StringValue(call.inp.collectionName), StringValue(call.inp.tokenTicker),
                   BigUIntValue(call.inp.mintLimit), BooleanValue(call.inp.requireMintTax) >>
          /\ \/ Len(ret.tx.args) = 4
             \/ /\ Len(ret.tx.args) = 6
                /\ call.inp.options # None
                /\ SubSeq(ret.tx.args, 5, 6) =
                      << TokenIdentifierValue(call.inp.options[1].taxTokenIdentifier),
                         BigUIntValue(call.inp.options[1].taxTokenAmount) >>

C5_Witness ==
    /\ Returned("acceptOfferWithEGLD")
    /\ call.inp.price = "2500000000000000000"
    /\ ret.tx.value = "2500000000000000000"
    /\ Len(ret.tx.args) = 2

(* C6 as the claim words it: NftMinter.initializeContract has six arguments *)
(* (the four base ones and the tax pair) whenever requireMintTax is true    *)
(* and exactly the four base ones whenever it is false.                     *)
C6_AsClaimed ==
    Returned("initializeContract") =>
        LET i == call.inp
            base == << StringValue(i.collectionName), StringValue(i.tokenTicker),
                       BigUIntValue(i.mintLimit), BooleanValue(i.requireMintTax) >>
        IN  IF i.requireMintTax
            THEN Len(ret.tx.args) = 6 /\ SubSeq(ret.tx.args, 1, 4) = base
            ELSE ret.tx.args = base

(* the call that shows it: requireMintTax = true with no options object *)
C6_Witness ==
    /\ Returned("initializeContract")
    /\ call.inp.requireMintTax
    /\ call.inp.options = None
    /\ Len(ret.tx.args) = 4
    /\ ret.tx.args[4] = BooleanValue(TRUE)

(* C7: a builder called with its optional argument omitted returns the      *)
(* Transaction it returns when the documented default is passed explicitly. *)
C7_Defaults ==
    LET i == call.inp
    IN  /\ (Returned("addOffer") /\ i.minimumPaymentTokenAmount = None) =>
              ret.tx = addOffer(clients.market, i.senderAddress, i.dataNftIdentifier,
                                i.dataNftNonce, i.dataNftAmount, i.paymentTokenIdentifier,
                                i.paymentTokenNonce, i.paymentTokenAmount, Some(0))
        /\ (Returned("changeOfferPrice") /\ i.newMinimumPaymentTokenAmount = None) =>
              ret.tx = changeOfferPrice(clients.market, i.senderAddress, i.offerId,
                                        i.newPrice, Some(0))
        /\ (Returned("cancelOffer") /\ i.sendFundsBackToOwner = None) =>
              ret.tx = cancelOffer(clients.market, i.senderAddress, i.offerId, Some(TRUE))
        /\ (Returned("acceptOfferWithESDT") /\ i.paymentTokenIdentifier = None) =>
              ret.tx = acceptOfferWithESDT(clients.market, i.senderAddress, i.offerId, i.amount,
                          i.price, Some(itheumTokenIdentifier(clients.market.env)))
        /\ (Returned("burn") /\ i.dataNftIdentifier = None) =>
              ret.tx = burn(clients.dataNftMinter, i.senderAddress, i.dataNftNonce,
                            i.quantityToBurn,
                            Some(dataNftTokenIdentifier(clients.dataNftMinter.env)))
        /\ (Returned("updateAttributes") /\ i.quantity = None) =>
              ret.tx = updateAttributes(clients.nftMinter, i.senderAddress, i.tokenIdentiifer,
                                        i.nonce, i.attributes, Some(1))
        /\ (Returned("claimRoyalties") /\ i.nonce = None) =>
              ret.tx = claimRoyalties(clients.nftMinter, i.senderAddress, i.tokenIdentifier,
                                      Some(0))

C7_Witness ==
    /\ Returned("cancelOffer")
    /\ call.inp.sendFundsBackToOwner = None
    /\ ret.tx.args[2] = BooleanValue(TRUE)

MethodName(op) == IF op = "DataNftMinter.viewContractPauseState" THEN "viewContractPauseState" ELSE op

QueryFailed ==
    /\ pc = "idle"
    /\ call.op \in QueryOps
    /\ locals.response.returnCode \in ReturnCodes \ {"ok"}

(* C9: a query whose return code signals failure throws ErrContractQuery    *)
(* with the name of the view method and the text of the return code; it     *)
(* returns no value.                                                        *)
C9_QueryFailure ==
    QueryFailed =>
        /\ ret.kind = "error"
        /\ ret.val = None
        /\ ret.err = [name |-> "ErrContractQuery", method |-> MethodName(call.op),
                      message |-> locals.response.returnCode]

C9_Witness ==
    /\ QueryFailed
    /\ call.op = "viewAddressTotalOffers"
    /\ ret.err.name = "ErrContractQuery"
    /\ ret.err.message = "user error"

(* a JavaScript number of value n, a JavaScript string of text t *)
IsNumber(x, n) == x.js = "number" /\ x.v = n
IsString(x, t) == x.js = "string" /\ x.v = t

(* C10 as the claim words it: viewOffers decodes N index-keyed offers to N  *)
(* records in the same order, with index, nonces and quantity numbers,      *)
(* owner the textual address, and the amounts decimal strings.              *)
C10_AsClaimed ==
    (pc = "idle" /\ call.op = "viewOffers" /\ ret.kind = "value") =>
        LET raw == locals.response.firstValue[1]
            offers == ret.val
        IN  /\ Len(offers) = Len(raw)
            /\ \A k \in 1..Len(raw) :
                  LET o == raw[k][2]
                  IN  /\ IsNumber(offers[k].index, raw[k][1].v)
                      /\ IsString(offers[k].owner, o.owner.v)
                      /\ IsString(offers[k].offeredTokenIdentifier, o.offered_token.token_identifier)
                      /\ IsNumber(offers[k].offeredTokenNonce, o.offered_token.token_nonce.v)
                      /\ IsString(offers[k].offeredTokenAmount, NatToStr(o.offered_token.amount.v))
                      /\ IsString(offers[k].wantedTokenIdentifier, o.wanted_token.token_identifier)
                      /\ IsNumber(offers[k].wantedTokenNonce, o.wanted_token.token_nonce.v)
                      /\ IsString(offers[k].wantedTokenAmount, NatToStr(o.wanted_token.amount.v))
                      /\ IsNumber(offers[k].quantity, o.quantity.v)

(* what viewOffers does return for one offer: the nonces as strings, the    *)
(* amounts as the BigNumber objects of the response                         *)
C10_Witness ==
    /\ pc = "idle"
    /\ call.op = "viewOffers"
    /\ ret.kind = "value"
    /\ Len(ret.val) = 1
    /\ ret.val[1].index.js = "number"
    /\ ret.val[1].offeredTokenNonce.js = "string"
    /\ ret.val[1].offeredTokenAmount.js = "BigNumber"

(* the attributes are a full encoding of the DataNftAttributes struct *)
FullEncoding(a) ==
    /\ a # None
    /\ Len(a[1]) = Len(DataNftAttributes)
    /\ \A i \in 1..Len(DataNftAttributes) : a[1][i].type = DataNftAttributes[i].type

DecodeDone == pc = "idle" /\ call.op = "DataNft.decodeAttributes"

(* C11: decodeAttributes is all-or-nothing.  Attributes that are a full     *)
(* encoding of the struct give a record of exactly the seven fields         *)
(* dataPreview, dataStream, dataMarshal, creator, creationTime, description *)
(* and title, each holding the encoded value and creationTime the encoded   *)
(* seconds times 1000; any other attributes (undefined, cut short, of       *)
(* another struct) make the call throw ErrDecodeAttributes with the message *)
(* of the cause, and no record is returned.                                 *)
C11_AllOrNothing ==
    DecodeDone =>
        LET a == call.inp.attributes
        IN  IF FullEncoding(a)
            THEN /\ ret.kind = "value"
                 /\ DOMAIN ret.val = {"dataPreview", "dataStream", "dataMarshal", "creator",
                                      "creationTime", "description", "title"}
                 /\ ret.val.dataStream = a[1][1].v
                 /\ ret.val.dataPreview = a[1][2].v
                 /\ ret.val.dataMarshal = a[1][3].v
                 /\ ret.val.creator = a[1][4].v
                 /\ ret.val.creationTime = a[1][5].v * 1000
                 /\ ret.val.title = a[1][6].v
                 /\ ret.val.description = a[1][7].v
            ELSE /\ ret.kind = "error"
                 /\ ret.val = None
                 /\ ret.err.name = "ErrDecodeAttributes"
                 /\ ret.err.message # ""

C11_Witness ==
    /\ DecodeDone
    /\ FullEncoding(call.inp.attributes)
    /\ ret.kind = "value"
    /\ ret.val.creationTime = 1600000000

(* the operations of DataNft that send a request *)
DataNftApiOps == {"createFromApi", "createManyFromApi", "ownedByAddress"}
AccessOps == {"viewData", "viewDataViaMVXNativeAuth"}
MarshalOps == {"getMessageToSign", "viewData", "viewDataViaMVXNativeAuth"}

(* the request the running or finished handler has issued *)
Request == locals.request[1]
Issued == call.op \in MarshalOps \cup DataNftApiOps /\ locals.request # None

HasParam(request, k) == \E i \in 1..Len(request.query) : request.query[i].k = k
QueryParam(request, k) ==
    request.query[CHOOSE i \in 1..Len(request.query) : request.query[i].k = k].v

(* C12: whenever getMessageToSign, viewData or viewDataViaMVXNativeAuth     *)
(* issues its request to the Data Marshal, the chainId parameter of the URL *)
(* is 'ED' if the chain id configured at that moment is 'D' and is the      *)
(* configured chain id itself otherwise; the three operations agree.        *)
C12_ChainIdMapping ==
    [][(pc = "idle" /\ pc' = "fetch" /\ call'.op \in MarshalOps) =>
        /\ HasParam(locals'.request[1], "chainId")
        /\ QueryParam(locals'.request[1], "chainId") =
              IF static.networkConfiguration.chainID = "D"
              THEN "ED" ELSE static.networkConfiguration.chainID]_vars

C12_Witness ==
    /\ pc = "fetch"
    /\ call.op = "getMessageToSign"
    /\ static.networkConfiguration.chainID = "D"
    /\ QueryParam(Request, "chainId") = "ED"

(* a request of viewData or viewDataViaMVXNativeAuth has been issued *)
AccessIssued(op) == call.op = op /\ locals.request # None

(* the header names a fwdHeaderKeys list names (the lists here name one) *)
NamedIn(fwdHeaderKeys) == {k \in {"authorization", "cookie"} : fwdHeaderKeys = k}

AttachedHeaders == IF Request.headers = None THEN {} ELSE Request.headers[1]

(* C13 (as claimed): when viewData is called with both fwdHeaderKeys and   *)
(* fwdAllHeaders set, every header attached to the access request is an    *)
(* entry of fwdHeaderMapLookup whose key is named in fwdHeaderKeys.        *)
C13_AsClaimed ==
    (/\ AccessIssued("viewData")
     /\ call.inp.p.fwdHeaderKeys # None
     /\ call.inp.p.fwdAllHeaders = Some(TRUE)) =>
        \A h \in AttachedHeaders :
            /\ call.inp.p.fwdHeaderMapLookup # None
            /\ h \in call.inp.p.fwdHeaderMapLookup[1]
            /\ h.k \in NamedIn(call.inp.p.fwdHeaderKeys[1])

(* C13 (as the code has it): when viewData is called with fwdHeaderKeys    *)
(* set, whatever fwdAllHeaders is, the headers attached to the access      *)
(* request are exactly the entries of fwdHeaderMapLookup, those whose key  *)
(* fwdHeaderKeys does not name included (none if the map is missing or     *)
(* empty); without fwdHeaderKeys no header is attached.                    *)
C13_AllLookupEntries ==
    AccessIssued("viewData") =>
        LET p == call.inp.p
        IN  IF p.fwdHeaderKeys # None /\ p.fwdHeaderMapLookup # None
            THEN AttachedHeaders = p.fwdHeaderMapLookup[1]
            ELSE AttachedHeaders = {}

C13_Witness ==
    /\ AccessIssued("viewData")
    /\ call.inp.p.fwdHeaderKeys = Some("cookie")
    /\ call.inp.p.fwdAllHeaders = Some(TRUE)
    /\ [k |-> "authorization", v |-> "Bearer zxy"] \in AttachedHeaders
    /\ [k |-> "cookie", v |-> "xyz"] \in AttachedHeaders

(* C14: whenever viewDataViaMVXNativeAuth issues its access request, the   *)
(* authorization entry of fwdHeaderMapLookup is attached to it, once and   *)
(* with the value of the map; every other entry of the map is attached if  *)
(* and only if fwdHeaderKeys is supplied, and the fwdHeaderKeys parameter  *)
(* is in the URL if and only if fwdHeaderKeys is supplied; nothing that is *)
(* not in the map is attached.                                             *)
C14_NativeAuthHeaders ==
    AccessIssued("viewDataViaMVXNativeAuth") =>
        LET p == call.inp.p
            lookup == p.fwdHeaderMapLookup[1]
        IN  /\ p.fwdHeaderMapLookup # None
            /\ \E e \in lookup : e.k = "authorization" /\ e \in AttachedHeaders
            /\ Cardinality({h \in AttachedHeaders : h.k = "authorization"}) = 1
            /\ AttachedHeaders \subseteq lookup
            /\ \A e \in lookup :
                  e.k # "authorization" => (e \in AttachedHeaders <=> p.fwdHeaderKeys # None)
            /\ HasParam(Request, "fwdHeaderKeys") <=> p.fwdHeaderKeys # None
            /\ p.fwdHeaderKeys # None => QueryParam(Request, "fwdHeaderKeys") = p.fwdHeaderKeys[1]

C14_Witness ==
    /\ AccessIssued("viewDataViaMVXNativeAuth")
    /\ call.inp.p.fwdHeaderKeys = None
    /\ [k |-> "cookie", v |-> "xyz"] \in call.inp.p.fwdHeaderMapLookup[1]
    /\ AttachedHeaders = {[k |-> "authorization", v |-> "Bearer zxy"]}

(* the validation gate of an access call ran and reported a violation *)
GateFailed(op) == call.op = op /\ locals.gate # None /\ ~locals.gate[1].allPassed

MissingParam(names) == \E n \in names : call.inp.p[n] = None

(* C15: the validation gate runs before any network call.  In viewData,    *)
(* viewDataViaMVXNativeAuth and mint, when the gate reports allPassed =    *)
(* false the operation has ended in failure (thrown by viewData and mint,  *)
(* returned in the outcome by viewDataViaMVXNativeAuth) with the collected *)
(* validation messages, and no request has been issued.  The gate reports  *)
(* false when a mandatory parameter is missing and, for native auth, when  *)
(* the header lookup map has no authorization entry.                       *)
C15_GateBeforeNetwork ==
    /\ GateFailed("viewData") =>
          /\ pc = "idle" /\ locals.step = 0 /\ locals.request = None /\ locals.response = None
          /\ ret.kind = "error"
          /\ ret.err.message = "params have validation issues = " \o locals.gate[1].validationMessages
    /\ GateFailed("viewDataViaMVXNativeAuth") =>
          /\ pc = "idle" /\ locals.step = 0 /\ locals.request = None /\ locals.response = None
          /\ ret.kind = "value"
          /\ ret.val.data = None
          /\ ret.val.error = Some("params have validation issues = " \o locals.gate[1].validationMessages)
    /\ (call.op \in MintOps /\ ~locals.allPassed) =>
          /\ pc = "idle" /\ locals.step = 0
          /\ ret = MintValidationError(call.op)
    /\ (call.op = "viewData" /\ locals.gate # None
            /\ MissingParam({"signedMessage", "signableMessage"})) =>
          GateFailed("viewData")
    /\ (call.op = "viewDataViaMVXNativeAuth"
            /\ \/ MissingParam({"mvxNativeAuthOrigins", "mvxNativeAuthMaxExpirySeconds",
                                "fwdHeaderMapLookup"})
               \/ ~\E e \in call.inp.p.fwdHeaderMapLookup[1] : e.k = "authorization") =>
          GateFailed("viewDataViaMVXNativeAuth")

C15_Witness ==
    /\ GateFailed("viewDataViaMVXNativeAuth")
    /\ call.inp.p.fwdHeaderMapLookup = Some({[k |-> "cookie", v |-> "xyz"]})
    /\ static.env = "devnet"
    /\ call.inp.self.dataMarshal = "https://marshal"
    /\ ret.val.error # None
    /\ locals.request = None

(* an access call has finished *)
AccessDone(op) == pc = "idle" /\ call.op = op

(* the request of the finished call was rejected or answered with a       *)
(* failing status                                                         *)
RequestFailed ==
    /\ locals.response # None
    /\ ~(locals.response[1].status >= 200 /\ locals.response[1].status <= 299)

(* C16 (as claimed): every call of viewData and viewDataViaMVXNativeAuth  *)
(* completes by returning an outcome {data, contentType, error?}; it      *)
(* never throws.                                                          *)
C16_AsClaimed ==
    \A op \in AccessOps :
        AccessDone(op) =>
            /\ ret.kind = "value"
            /\ DOMAIN ret.val = {"data", "contentType", "error"}

(* C16 (as the code has it): viewDataViaMVXNativeAuth never throws: every *)
(* call returns an outcome, and a failure of any kind (validation, unset  *)
(* configuration, request, HTTP status) is the error field of it.         *)
(* viewData throws, before any request, when the network configuration is *)
(* not set (ErrNetworkConfig), when the DataNft has no dataMarshal        *)
(* (ErrAttributeNotSet) and when the validation fails (Error); once its   *)
(* request is issued it returns an outcome, and a failure of the request  *)
(* or of the HTTP status is the error field of it.                        *)
C16_ReturnedOrRaised ==
    /\ AccessDone("viewDataViaMVXNativeAuth") =>
          /\ ret.kind = "value"
          /\ DOMAIN ret.val = {"data", "contentType", "error"}
          /\ (locals.response = None \/ RequestFailed) =>
                ret.val.error # None /\ ret.val.data = None
    /\ AccessDone("viewData") =>
          IF locals.request = None
          THEN /\ ret.kind = "error"
               /\ ret.err.name \in {"ErrNetworkConfig", "ErrAttributeNotSet", "Error"}
               /\ ret.err.name = "Error" <=> GateFailed("viewData")
               /\ ret.err.name = "ErrAttributeNotSet" => call.inp.self.dataMarshal = ""
          ELSE /\ ret.kind = "value"
               /\ DOMAIN ret.val = {"data", "contentType", "error"}
               /\ RequestFailed => ret.val.error # None /\ ret.val.data = None
               /\ ~RequestFailed => ret.val.error = None /\ ret.val.data # None

C16_Witness ==
    /\ AccessDone("viewData")
    /\ RequestFailed
    /\ locals.response[1].status = 404
    /\ ret.kind = "value"
    /\ ret.val.error # None

(* the outcome of a call whose request was answered with a failing status *)
FailingStatus(op) ==
    AccessDone(op) /\ locals.response # None /\ locals.response[1].status = 404

(* C17 (as claimed): on a failing HTTP status both flows return an        *)
(* outcome whose error combines the status failure with the error body    *)
(* read as text, and whose contentType is the content type of the         *)
(* failing response.                                                      *)
C17_AsClaimed ==
    \A op \in AccessOps :
        FailingStatus(op) =>
            /\ ret.kind = "value"
            /\ ret.val.error = Some("ErrFetch: 404. Detailed error trace follows : "
                                    \o locals.response[1].body)
            /\ ret.val.contentType = Default(locals.response[1].contentType, "")

(* C17 (as the code has it): on a failing HTTP status both flows return   *)
(* an outcome whose error combines the status failure with the error body *)
(* read as text; its data is undefined and its contentType is the empty   *)
(* string, whatever content type the failing response carried.            *)
C17_ErrorOutcome ==
    \A op \in AccessOps :
        FailingStatus(op) =>
            /\ ret.kind = "value"
            /\ ret.val.error = Some("ErrFetch: 404. Detailed error trace follows : "
                                    \o locals.response[1].body)
            /\ ret.val.data = None
            /\ ret.val.contentType = ""

C17_Witness ==
    /\ FailingStatus("viewDataViaMVXNativeAuth")
    /\ locals.response[1].contentType = Some("application/json")
    /\ locals.response[1].body = "marshal-error"
    /\ ret.val.contentType = ""

(* C18 (as claimed): when setNetworkConfig has never succeeded, a call of  *)
(* createFromApi, createManyFromApi, ownedByAddress, getMessageToSign,     *)
(* viewData or viewDataViaMVXNativeAuth fails with ErrNetworkConfig and    *)
(* issues no request.                                                      *)
C18_AsClaimed ==
    [][(static = NoStatic /\ call = NoCall /\ call'.op \in DataNftApiOps \cup MarshalOps) =>
        /\ pc' = "idle"
        /\ ret'.kind = "error"
        /\ ret'.err.name = "ErrNetworkConfig"
        /\ locals'.request = None]_vars

C18_Witness ==
    /\ AccessDone("viewDataViaMVXNativeAuth")
    /\ static = NoStatic
    /\ locals.gate # None /\ locals.gate[1].allPassed
    /\ ret.kind = "value"
    /\ ret.val.error = Some("Cannot read properties of undefined (reading 'chainID')")

(* the static fields are those of one environment *)
ConfiguredFor(e) ==
    static = [env |-> e, networkConfiguration |-> networkConfiguration(e),
              apiConfiguration |-> apiConfiguration(e)]

(* C19 (as claimed): setNetworkConfig with an env that is not a known      *)
(* environment leaves the static fields unchanged, so they are always      *)
(* either all unset or all those of one environment; and the constructors  *)
(* of DataNftMarket and DataNftMinter throw ErrNetworkConfig for an        *)
(* unknown env.                                                            *)
C19_AsClaimed ==
    /\ static = NoStatic \/ \E e \in EnvironmentsEnum : ConfiguredFor(e)
    /\ (/\ pc = "idle"
        /\ call.op \in {"new DataNftMarket", "new DataNftMinter"}
        /\ call.inp.env \notin EnvironmentsEnum) =>
          ret.kind = "error" /\ ret.err.name = "ErrNetworkConfig"

C19_Witness ==
    /\ static.env = "toString"
    /\ static.apiConfiguration = InheritedMember
    /\ configError = ""

(* C20 (as claimed): with the network configuration set, a call of         *)
(* getMessageToSign, viewData or viewDataViaMVXNativeAuth on a DataNft     *)
(* without a dataMarshal URL fails with ErrAttributeNotSet naming          *)
(* 'dataMarshal' and issues no request.                                    *)
C20_AsClaimed ==
    [][(/\ call = NoCall
        /\ call'.op \in MarshalOps
        /\ call'.inp.self.dataMarshal = ""
        /\ ensureNetworkConfigSet(static)) =>
        /\ pc' = "idle"
        /\ ret'.kind = "error"
        /\ ret'.err.name = "ErrAttributeNotSet"
        /\ ret'.err.message = "dataMarshal"
        /\ locals'.request = None]_vars

C20_Witness ==
    /\ pc = "fetch"
    /\ call.op = "viewDataViaMVXNativeAuth"
    /\ call.inp.self.dataMarshal = ""
    /\ Request.base = ""
    /\ Request.path = "/access"

----------------------------------------------------------------------------
(* the handler's position is an await: one request is outstanding *)
Outstanding == IF pc = "idle" THEN 0 ELSE 1

(* the most requests one call of `op` may issue: a query or a DataNft call *)
(* one, mint the three URL checks, /generate and two more                  *)
MaxRequests(op) == IF op \in MintOps THEN 6 ELSE 1

(* this step answers the awaited request, and the answer is a failure: the *)
(* request is rejected, or its status or return code signals a failure     *)
AnsweredFailing ==
    /\ pc # "idle"
    /\ locals'.step = locals.step + 1
    /\ \/ pc = "queryContract" /\ locals'.response.returnCode # "ok"
       \/ pc = "fetch" /\ ~(locals'.response[1].status \in 200..299)
       \/ pc = "checkUrlIsUp" /\ locals'.urlsChecked = locals.urlsChecked
       \/ pc = "dataNFTDataStreamAdvertise" /\ ~(locals'.generate[1].status \in 200..299)
       \/ pc = "createFileFromUrl" /\ ~(locals'.image[1] \in 200..299)
       \/ pc \in {"storeToIpfs", "checkTraitsUrl"} /\ ret'.kind # "tx"

(* the operation has ended and its caller holds the failure: an error      *)
(* raised or, for the two access flows, an outcome with its error set      *)
Surfaced ==
    /\ pc' = "idle"
    /\ \/ ret'.kind = "error"
       \/ /\ call.op \in AccessOps
          /\ ret'.kind = "value"
          /\ ret'.val.error # None

(* C21 (as claimed): no retries and no overlapping requests.  Within one   *)
(* call at most one request is outstanding, the call issues no more        *)
(* requests than its handler has awaits, a request answered with a failure *)
(* ends the call at once with the failure surfaced to the caller, an ended *)
(* call issues nothing more, and a mint whose URL check failed has made no *)
(* /generate, image-service or IPFS request and returns no Transaction.    *)
C21_AsClaimed ==
    [][/\ Outstanding' <= 1
       /\ locals'.step + Outstanding' <= MaxRequests(call'.op)
       /\ AnsweredFailing => Surfaced
       /\ (pc = "idle" /\ call # NoCall /\ call' = call) => (pc' = "idle" /\ locals' = locals)
       /\ (call.op \in MintOps /\ pc = "checkUrlIsUp" /\ pc' = "idle") =>
            /\ ret'.kind = "error"
            /\ locals'.generate = None
            /\ locals'.image = None
            /\ locals'.step <= 3]_vars

(* the image service answered with a failing status, and mint went on to   *)
(* the IPFS upload and returned a Transaction                              *)
C21_Witness ==
    /\ call.op \in MintOps
    /\ pc = "idle"
    /\ locals.image = Some(500)
    /\ locals.step = 6
    /\ ret.kind = "tx"

----------------------------------------------------------------------------
(* C22: called with the network configuration set on a DataNft that has a  *)
(* dataMarshal URL, getMessageToSign issues exactly one request, the GET   *)
(* of {dataMarshal}/preaccess?chainId=<mapped chain id>; when the response *)
(* has a success status the call returns its nonce field, and when the     *)
(* request fails the call raises and returns no nonce.  The nonce reaches  *)
(* the caller only once the PREACCESS request has been answered, and the   *)
(* call itself issues no ACCESS request.                                   *)
C22_GetMessageToSign ==
    [][/\ (/\ call = NoCall
           /\ call'.op = "getMessageToSign"
           /\ ensureNetworkConfigSet(static)
           /\ call'.inp.self.dataMarshal # "") =>
            /\ pc' = "fetch"
            /\ ret' = NoRet
            /\ locals'.step = 0
            /\ locals'.request =
                  Some([base |-> call'.inp.self.dataMarshal,
                        path |-> "/preaccess",
                        query |-> << Param("chainId",
                                           IF static.networkConfiguration.chainID = "D"
                                           THEN "ED" ELSE static.networkConfiguration.chainID) >>,
                        headers |-> None])
       /\ (call.op = "getMessageToSign" /\ pc = "fetch" /\ pc' = "idle") =>
            /\ locals'.step = 1
            /\ locals'.request = locals.request
            /\ locals'.response # None
            /\ IF locals'.response[1].status \in 200..299
               THEN ret' = RetVal(locals'.response[1].body.nonce)
               ELSE ret'.kind = "error" /\ ret'.val = None
       /\ (call.op = "getMessageToSign" /\ call' = call /\ ret'.kind = "value") =>
            /\ locals'.step = 1
            /\ locals'.request[1].path = "/preaccess"
       /\ (call.op = "getMessageToSign" /\ call' = call /\ pc = "idle") =>
            (pc' = "idle" /\ locals' = locals)]_vars

(* getMessageToSign has returned the nonce of the marshal's response *)
C22_Witness ==
    /\ call.op = "getMessageToSign"
    /\ pc = "idle"
    /\ locals.step = 1
    /\ Request.base = "https://marshal"
    /\ QueryParam(Request, "chainId") = "ED"
    /\ ret = RetVal("nonce-1")

----------------------------------------------------------------------------
(* the identifier requested for token t under environment env: its own     *)
(* token identifier, or the default of env, and its nonce in padded hex    *)
IdentifierOf(t, env) ==
    (IF t.tokenIdentifier = None THEN dataNftTokenIdentifier(env) ELSE t.tokenIdentifier[1])
    \o "-" \o numberToPaddedHex(t.nonce)

(* the identifiers of a sequence of tokens, in their order, comma-separated *)
RECURSIVE IdentifiersOf(_, _)
IdentifiersOf(tokens, env) ==
    IF tokens = << >> THEN ""
    ELSE IdentifierOf(Head(tokens), env)
         \o (IF Len(tokens) > 1 THEN "," ELSE "") \o IdentifiersOf(Tail(tokens), env)

----------------------------------------------------------------------------
(* C24: ownedByAddress, through createFromApiResponseOrBulk, yields an     *)
(* array of DataNft: a single record gives an array of length 1, an array  *)
(* of N records gives N DataNft in the same order, and if any record fails *)
(* to parse ErrDataNftCreate is raised and no array, however partial, is   *)
(* returned.                                                               *)
C24_ArrayAllOrNothing ==
    [][(/\ call.op = "ownedByAddress"
        /\ pc = "fetch"
        /\ pc' = "idle"
        /\ locals'.response[1].status \in 200..299) =>
          LET payload == locals'.response[1].body
              items == payload.items
          IN  IF \A i \in 1..Len(items) : FullEncoding(items[i].attributes)
              THEN /\ ret'.kind = "value"
                   /\ Len(ret'.val) = Len(items)
                   /\ ~payload.array => Len(ret'.val) = 1
                   /\ \A i \in 1..Len(items) :
                         /\ ret'.val[i].tokenIdentifier = items[i].identifier
                         /\ ret'.val[i].nonce = items[i].nonce
              ELSE /\ ret'.kind = "error"
                   /\ ret'.err.name = "ErrDataNftCreate"
                   /\ ret'.val = None]_vars

(* of two records the second did not parse, and the call raised *)
C24_Witness ==
    /\ call.op = "ownedByAddress"
    /\ pc = "idle"
    /\ locals.response # None
    /\ locals.response[1].status = 200
    /\ Len(locals.response[1].body.items) = 2
    /\ FullEncoding(locals.response[1].body.items[1].attributes)
    /\ ~FullEncoding(locals.response[1].body.items[2].attributes)
    /\ ret.kind = "error"
    /\ ret.err.name = "ErrDataNftCreate"

----------------------------------------------------------------------------
(* a conditionally required option of mint is missing: no image URL and no *)
(* storage token, or an image URL and no traits URL                        *)
OptionMissing(inp) ==
    \/ Falsy(inp.imageUrl) /\ Falsy(inp.nftStorageToken)
    \/ ~Falsy(inp.imageUrl) /\ Falsy(inp.traitsUrl)

(* C25 (as claimed): a mint call whose parameters pass validation but      *)
(* which lacks a conditionally required option raises the argument-not-set *)
(* error at once, before any network call: no URL check, no /generate, no  *)
(* image-service or IPFS request is made, and no Transaction is returned.  *)
C25_AsClaimed ==
    [][(/\ call = NoCall
        /\ call'.op \in MintOps
        /\ locals'.allPassed
        /\ OptionMissing(call'.inp)) =>
        /\ pc' = "idle"
        /\ ret'.kind = "error"
        /\ ret'.err.name = "ErrArgumentNotSet"
        /\ locals'.step = 0
        /\ locals'.generate = None]_vars

(* the missing storage token is reported only after the three URL checks   *)
(* and the /generate request have been made and answered                   *)
C25_Witness ==
    /\ call.op = "SftMinter.mint"
    /\ OptionMissing(call.inp)
    /\ pc = "idle"
    /\ ret = MintOptionError("SftMinter.mint", "nftStorageToken")
    /\ locals.urlsChecked = 3
    /\ locals.generate # None
    /\ locals.step = 4

----------------------------------------------------------------------------
(* C26: in every Transaction returned by mint, with or without a tax, the  *)
(* data-stream argument (the fifth of the endpoint's arguments) is the     *)
(* encryptedMessage of the /generate response, no argument of the payload  *)
(* is the dataStreamUrl the caller passed, and /generate has answered with *)
(* a success status and with both encryptedMessage and messageHash.        *)
C26_EncryptedStream ==
    MintReturned =>
        LET args == ret.tx.args
            wrapper == IF call.inp.antiSpamTax > 0 THEN 3 ELSE 0
        IN  /\ locals.generate # None
            /\ locals.generate[1].status \in 200..299
            /\ locals.generate[1].encryptedMessage # None
            /\ locals.generate[1].messageHash # None
            /\ Len(args) = wrapper + 10
            /\ args[wrapper + 5] = StringValue(locals.generate[1].encryptedMessage[1])
            /\ \A i \in 1..Len(args) :
                  args[i].type = "bytes" => args[i].value # call.inp.dataStreamUrl

(* a Transaction of the taxed branch carrying the encrypted message *)
C26_Witness ==
    /\ MintReturned
    /\ call.inp.antiSpamTax > 0
    /\ call.inp.dataStreamUrl = "https://stream"
    /\ ret.tx.func = "ESDTTransfer"
    /\ ret.tx.args[8] = StringValue("encrypted")

----------------------------------------------------------------------------
(* this step answers the POST to /generate with the response `res` *)
GenerateAnswered ==
    /\ call.op \in MintOps
    /\ pc = "dataNFTDataStreamAdvertise"
    /\ locals'.step = locals.step + 1
    /\ locals'.generate # None
    /\ locals'.generate[1].status # 0

(* the response lacks encryptedMessage or messageHash *)
LacksField(res) == res.encryptedMessage = None \/ res.messageHash = None

(* this step ends the IPFS upload with a failure *)
UploadFailed ==
    /\ call.op \in MintOps
    /\ pc = "storeToIpfs"
    /\ locals'.step = locals.step + 1
    /\ ret'.kind # "tx"

(* C27 (as claimed): a /generate response lacking encryptedMessage or      *)
(* messageHash makes mint raise ErrFailedOperation naming                   *)
(* 'dataNFTDataStreamAdvertise', a failing IPFS upload makes it raise      *)
(* ErrFailedOperation naming 'storeToIpfs'; no Transaction is returned and *)
(* no later step runs.                                                     *)
C27_AsClaimed ==
    [][/\ (GenerateAnswered /\ LacksField(locals'.generate[1])) =>
            /\ pc' = "idle"
            /\ ret'.kind = "error"
            /\ ret'.err.name = "ErrFailedOperation"
            /\ ret'.err.method = "dataNFTDataStreamAdvertise"
       /\ UploadFailed =>
            /\ pc' = "idle"
            /\ ret'.kind = "error"
            /\ ret'.err.name = "ErrFailedOperation"
            /\ ret'.err.method = "storeToIpfs"]_vars

(* C27 (as the code has it): a /generate response lacking encryptedMessage *)
(* or messageHash ends mint with an error and without a Transaction, the   *)
(* image service and IPFS not requested: ErrFailedOperation naming         *)
(* 'dataNFTDataStreamAdvertise' when the body is JSON and the status a     *)
(* success, ErrFetch when the body is JSON and the status a failure, the   *)
(* parser's SyntaxError when the body is not JSON.  A failing IPFS upload  *)
(* ends mint with ErrFailedOperation naming 'storeToIpfs'.                 *)
C27_FailedOperation ==
    [][/\ (GenerateAnswered /\ LacksField(locals'.generate[1])) =>
            LET res == locals'.generate[1]
            IN  /\ pc' = "idle"
                /\ ret'.kind = "error"
                /\ locals'.image = None
                /\ ret'.err.name =
                      IF ~res.json THEN "SyntaxError"
                      ELSE IF res.status \in 200..299 THEN "ErrFailedOperation"
                      ELSE "ErrFetch"
                /\ ret'.err.method = "dataNFTDataStreamAdvertise"
       /\ UploadFailed =>
            /\ pc' = "idle"
            /\ ret'.kind = "error"
            /\ ret'.err.name = "ErrFailedOperation"
            /\ ret'.err.method = "storeToIpfs"
       /\ (call.op \in MintOps /\ pc = "idle" /\ call' = call) =>
            (pc' = "idle" /\ locals' = locals)]_vars

(* /generate answered 200 with a JSON body without messageHash, and mint   *)
(* raised ErrFailedOperation                                               *)
C27_Witness ==
    /\ call.op \in MintOps
    /\ pc = "idle"
    /\ locals.generate # None
    /\ locals.generate[1].status = 200
    /\ locals.generate[1].json
    /\ locals.generate[1].encryptedMessage # None
    /\ locals.generate[1].messageHash = None
    /\ ret = Throw("ErrFailedOperation", "dataNFTDataStreamAdvertise",
                   "Invalid response from Data Marshal")

----------------------------------------------------------------------------
(* the text the three optional flags add to the access URL, as parameters  *)
(* in their order                                                          *)
FlagParams(p) ==
    (IF p.stream = Some(TRUE) THEN << Param("streamInLine", "1") >> ELSE << >>)
    \o (IF p.fwdAllHeaders = Some(TRUE) THEN << Param("fwdAllHeaders", "1") >> ELSE << >>)
    \o (IF p.nestedIdxToStream # None
        THEN << Param("nestedIdxToStream", NatToStr(p.nestedIdxToStream[1])) >> ELSE << >>)

FlagNames == {"streamInLine", "fwdAllHeaders", "nestedIdxToStream"}

(* C28: in viewData and in viewDataViaMVXNativeAuth alike, the access URL  *)
(* carries 'streamInLine=1' exactly when stream is true, 'fwdAllHeaders=1' *)
(* exactly when fwdAllHeaders is true and 'nestedIdxToStream=<n>' exactly  *)
(* when nestedIdxToStream is defined (0 included); a flag that is false or *)
(* undefined adds nothing, the flags come in this order right after the    *)
(* five mandatory parameters, and the text added is the same function of   *)
(* the three options in both flows.                                        *)
C28_OptionalFlags ==
    [][(pc = "idle" /\ pc' = "fetch" /\ call'.op \in AccessOps) =>
        LET q == locals'.request[1].query
            flags == FlagParams(call'.inp.p)
        IN  /\ Len(q) >= 5 + Len(flags)
            /\ SubSeq(q, 6, 5 + Len(flags)) = flags
            /\ \A i \in 1..Len(q) :
                  q[i].k \in FlagNames => (i > 5 /\ i <= 5 + Len(flags))]_vars

(* the native-auth flow has issued a request with all three flags, the     *)
(* nested index being 0                                                    *)
C28_Witness ==
    /\ call.op = "viewDataViaMVXNativeAuth"
    /\ pc = "fetch"
    /\ call.inp.p.stream = Some(TRUE)
    /\ call.inp.p.fwdAllHeaders = Some(TRUE)
    /\ call.inp.p.nestedIdxToStream = Some(0)
    /\ SubSeq(Request.query, 6, 8) = << Param("streamInLine", "1"), Param("fwdAllHeaders", "1"),
                                        Param("nestedIdxToStream", "0") >>

----------------------------------------------------------------------------
(* the signature and the address can be extracted from the signable        *)
(* message of p: both are there, the signature is a Buffer or has hex(),   *)
(* the address has hex()                                                   *)
Extractable(p) ==
    /\ p.signableMessage # None
    /\ p.signableMessage[1].signature # None
    /\ p.signableMessage[1].address # None
    /\ p.signableMessage[1].signature[1].kind \in {"Buffer", "Signature"}
    /\ p.signableMessage[1].address[1].kind = "Address"

(* C29 (as claimed): viewData sends its access request only when the       *)
(* signature and the address were extracted from the signable message:     *)
(* the request's signature parameter is then the non-empty hex of the      *)
(* signature and its accessRequesterAddr the hex of the address; when the  *)
(* extraction fails no request is sent and the outcome reports the reason. *)
C29_AsClaimed ==
    [][(call = NoCall /\ call'.op = "viewData" /\ locals'.gate # None /\ locals'.gate[1].allPassed) =>
        LET p == call'.inp.p
        IN  IF Extractable(p)
            THEN /\ pc' = "fetch"
                 /\ QueryParam(locals'.request[1], "signature") = p.signableMessage[1].signature[1].hex
                 /\ QueryParam(locals'.request[1], "signature") # ""
                 /\ QueryParam(locals'.request[1], "accessRequesterAddr") = p.signableMessage[1].address[1].hex
            ELSE /\ pc' = "idle"
                 /\ locals'.request = None
                 /\ ret'.kind = "value"
                 /\ ret'.val.error # None]_vars

(* the signable message has no signature, and the access request is on its *)
(* way with an empty signature and an empty requester address              *)
C29_Witness ==
    /\ call.op = "viewData"
    /\ pc = "fetch"
    /\ call.inp.p.signableMessage # None
    /\ call.inp.p.signableMessage[1].signature = None
    /\ QueryParam(Request, "signature") = ""
    /\ QueryParam(Request, "accessRequesterAddr") = ""

----------------------------------------------------------------------------
(* C30: a DataNft operation reads the static configuration only before its *)
(* first await.  The request it issues takes its base URL, its chain id    *)
(* and its default token identifier from the one environment configured at *)
(* the call, and while the request is awaited, and when it is answered,    *)
(* the request stays as issued, whatever setNetworkConfig does meanwhile.  *)
C30_Reconfiguration ==
    [][/\ (/\ call = NoCall
           /\ call'.op \in DataNftApiOps \cup MarshalOps
           /\ pc' = "fetch"
           /\ static.env \in EnvironmentsEnum) =>
            LET e == static.env
                r == locals'.request[1]
                i == call'.inp
            IN  CASE call'.op = "createFromApi" ->
                        /\ r.base = apiConfiguration(e)
                        /\ r.path = "/nfts/" \o IdentifierOf(i.token, e)
                  [] call'.op = "createManyFromApi" ->
                        /\ r.base = apiConfiguration(e)
                        /\ QueryParam(r, "identifiers") = IdentifiersOf(i.tokens, e)
                  [] call'.op = "ownedByAddress" ->
                        /\ r.base = apiConfiguration(e)
                        /\ QueryParam(r, "collections") =
                              Default(i.identifier, dataNftTokenIdentifier(e))
                  [] OTHER ->
                        QueryParam(r, "chainId") =
                            IF networkConfiguration(e).chainID = "D"
                            THEN "ED" ELSE networkConfiguration(e).chainID
       /\ (pc = "fetch" /\ call.op \in DataNftApiOps \cup MarshalOps) =>
            /\ call' = call
            /\ locals'.request = locals.request]_vars

(* setNetworkConfig('mainnet') has run while createFromApi awaits the      *)
(* request it issued under devnet                                          *)
C30_Witness ==
    /\ call.op = "createFromApi"
    /\ call.inp.token.tokenIdentifier = None
    /\ pc = "fetch"
    /\ static.env = "mainnet"
    /\ Request.base = apiConfiguration("devnet")
    /\ Request.path = "/nfts/" \o dataNftTokenIdentifier("devnet") \o "-02"

====
